---- MODULE Spec2Model ----
(***************************************************************************)
(* OFS repository engine: object store, staging index, commits, refs,      *)
(* commit cache, integrity verifier and the init / add / commit / checkout *)
(* commands, modelled from src/ofs.                                        *)
(*                                                                         *)
(* Files are modelled by their contents.  A directory is a function whose  *)
(* DOMAIN is the set of files that exist in it.  Index entries and commit  *)
(* file entries keep the fields the modelled code reads (path, hash,       *)
(* action); size, mode, mtime, message, author and timestamp are carried   *)
(* verbatim by the code and read by none of the modelled operations.       *)
(***************************************************************************)
EXTENDS Integers, Sequences, FiniteSets, TLC

(* ------------------------------ bounds --------------------------------- *)

MaxPaths ==
    2

MaxBytes ==
    3

MaxCommits ==
    3

MaxUserBytes ==
    1

MaxProcCommits ==
    2

MaxCrashCommits ==
    2

MaxStemLen ==
    3

MaxStems ==
    2

MaxBatch ==
    2

MaxObjFiles ==
    2

MaxIndexEntries ==
    2

MaxFileEntries ==
    1

MaxContentLen ==
    2

MaxListLen ==
    2

MaxCacheSize ==
    2

MaxLoads ==
    5

MaxLogFiles ==
    3

MaxPatterns ==
    3

MaxForkCommits ==
    4

MaxForkBytes ==
    2

MaxRestoreCommits ==
    2

Paths ==
    1..MaxPaths

Bytes ==
    1..MaxBytes

CommitIds ==
    1..MaxCommits

\* Contents the user writes into workspace files in the command models.
UserBytes ==
    1..MaxUserBytes

(* ------------------------------ hashing -------------------------------- *)

\* SHA-256 is modelled as an injective map from contents to digests; the
\* digests are disjoint from the contents so that a digest is never mistaken
\* for the bytes it names.
compute_hash(data) ==
    2 * data + 11

\* Streaming hash of a workspace file: the same digest as compute_hash of
\* the bytes read.
compute_file_hash(wsdir, path) ==
    compute_hash(wsdir[path])

Hashes ==
    {compute_hash(b) : b \in Bytes}

(* --------------------------- sequence helpers -------------------------- *)

Range(s) ==
    {s[i] : i \in DOMAIN s}

PathsOf(entries) ==
    {entries[i].path : i \in DOMAIN entries}

\* The entry for path in a list whose paths are unique.
EntryAt(entries, path) ==
    entries[CHOOSE i \in DOMAIN entries : entries[i].path = path]

\* path -> hash mapping of an entry list.
HashMap(entries) ==
    [p \in PathsOf(entries) |-> EntryAt(entries, p).hash]

\* All duplicate-free sequences over a finite set.
RECURSIVE Perms(_)
Perms(S) ==
    IF S = {} THEN {<<>>}
    ELSE UNION {{<<x>> \o t : t \in Perms(S \ {x})} : x \in S}

Orderings(S) ==
    UNION {Perms(T) : T \in SUBSET S}

(* ---------------------------- object store ------------------------------ *)

\* ObjectStore.exists: the blob file objects/h[0:2]/h[2:] exists.
exists(objs, hash_value) ==
    hash_value \in DOMAIN objs

\* store with the write lost: the hash is returned, no file is written.
store_nowrite(objs, content) ==
    [hash |-> compute_hash(content), objects |-> objs, wrote |-> FALSE]

\* store that rewrites a file whose bytes do not hash to its name.
store_repair(objs, content) ==
    IF exists(objs, compute_hash(content)) /\ objs[compute_hash(content)] = content
    THEN [hash |-> compute_hash(content), objects |-> objs, wrote |-> FALSE]
    ELSE [hash |-> compute_hash(content),
          objects |-> [h \in DOMAIN objs \cup {compute_hash(content)} |->
                         IF h = compute_hash(content) THEN content ELSE objs[h]],
          wrote |-> TRUE]

\* store without the early return: the file is written every time.
store_always(objs, content) ==
    [hash |-> compute_hash(content),
     objects |-> [h \in DOMAIN objs \cup {compute_hash(content)} |->
                    IF h = compute_hash(content) THEN content ELSE objs[h]],
     wrote |-> TRUE]

\* ObjectStore.store: hash, return early when a file is already at the
\* path of the hash, else write the content there.
store(objs, content) ==
    LET hash_value == compute_hash(content)
    IN  IF exists(objs, hash_value)
        THEN [hash |-> hash_value, objects |-> objs, wrote |-> FALSE]
        ELSE [hash |-> hash_value,
              objects |-> (hash_value :> content) @@ objs,
              wrote |-> TRUE]

\* ObjectStore.retrieve: FileNotFoundError when missing, ValueError when
\* the bytes read do not hash to the requested name, else the bytes.
retrieve(objs, hash_value) ==
    IF ~ exists(objs, hash_value)
    THEN [status |-> "notfound", content |-> 0]
    ELSE IF compute_hash(objs[hash_value]) # hash_value
         THEN [status |-> "corrupt", content |-> 0]
         ELSE [status |-> "ok", content |-> objs[hash_value]]

\* verify that answers whether the file exists.
verify_exists(objs, hash_value) ==
    IF exists(objs, hash_value)
    THEN [status |-> "ok", value |-> TRUE]
    ELSE [status |-> "notfound", value |-> FALSE]

\* ObjectStore.verify: retrieve, True when it returns, False when it raises
\* ValueError; FileNotFoundError is not caught.
verify(objs, hash_value) ==
    LET got == retrieve(objs, hash_value)
    IN  IF got.status = "ok" THEN [status |-> "ok", value |-> TRUE]
        ELSE IF got.status = "corrupt" THEN [status |-> "ok", value |-> FALSE]
        ELSE [status |-> "notfound", value |-> FALSE]

(* ------------------------------- index --------------------------------- *)

\* Index.add: drop any entry for the path, append the new one.
IndexAdd(entries, file_path, hash_value) ==
    Append(SelectSeq(entries, LAMBDA e : e.path # file_path),
           [path |-> file_path, hash |-> hash_value])

\* Index.has_changes
has_changes(entries) ==
    Len(entries) > 0

(* ------------------------------- refs ---------------------------------- *)

\* Contents of the HEAD file.  tag "missing": no file; "ref": the text
\* "ref: refs/heads/main"; "id": a raw commit id (detached).
HeadMissing ==
    [tag |-> "missing", id |-> 0]

HeadSymbolic ==
    [tag |-> "ref", id |-> 0]

HeadDetached(commit_id) ==
    [tag |-> "id", id |-> commit_id]

\* resolve_head: follow "ref: " to the branch file (absent, 0, when the
\* branch file is missing), else the contents themselves.
resolve_head(hd, mainref) ==
    IF hd.tag = "missing" THEN 0
    ELSE IF hd.tag = "ref" THEN mainref
    ELSE hd.id

\* is_detached_head
is_detached_head(hd) ==
    hd.tag = "id"

\* update_head that always writes the id into HEAD itself.
update_head_direct(hd, commit_id, detached) ==
    [kind |-> "head", value |-> HeadDetached(commit_id)]

\* update_head that, unless told to detach, always writes the branch ref.
update_head_branch(hd, commit_id, detached) ==
    IF detached THEN [kind |-> "head", value |-> HeadDetached(commit_id)]
    ELSE [kind |-> "ref", id |-> commit_id]

\* update_head: the file it writes and the value, as a write step.
update_head(hd, commit_id, detached) ==
    IF detached THEN [kind |-> "head", value |-> HeadDetached(commit_id)]
    ELSE IF hd.tag = "missing" \/ hd.tag = "ref"
         THEN [kind |-> "ref", id |-> commit_id]
         ELSE [kind |-> "head", value |-> HeadDetached(commit_id)]

(* ------------------------------ commits -------------------------------- *)

\* The value load_commit returns for "not found" (Python None).
NoneCommit ==
    [id |-> 0, parent |-> 0, files |-> <<>>]

\* f"{n:03d}": decimal digits, zero-padded to width 3.
RECURSIVE Digits(_)
Digits(n) ==
    IF n < 10 THEN <<n>> ELSE Append(Digits(n \div 10), n % 10)

FormatId(n) ==
    LET d == Digits(n)
    IN  IF Len(d) >= 3 THEN d
        ELSE [i \in 1..3 |-> IF i <= 3 - Len(d) THEN 0 ELSE d[i - (3 - Len(d))]]

\* Python string order on ids: lexicographic, a proper prefix is smaller.
RECURSIVE StrLess(_, _)
StrLess(a, b) ==
    IF a = <<>> THEN b # <<>>
    ELSE IF b = <<>> THEN FALSE
    ELSE IF Head(a) # Head(b) THEN Head(a) < Head(b)
    ELSE StrLess(Tail(a), Tail(b))

\* generate_commit_id that always answers the first id.
generate_commit_id_first(cdir) ==
    1

\* generate_commit_id that answers the largest id in use.
generate_commit_id_max(cdir) ==
    IF DOMAIN cdir = {} THEN 1
    ELSE CHOOSE m \in DOMAIN cdir : \A x \in DOMAIN cdir : x <= m

\* generate_commit_id: 1 when there is no commit file, else max + 1.
generate_commit_id(cdir) ==
    IF DOMAIN cdir = {} THEN 1
    ELSE (CHOOSE m \in DOMAIN cdir : \A x \in DOMAIN cdir : x <= m) + 1

\* list_commits: every commit file, sorted by id string, descending.
RECURSIVE ListDesc(_, _)
ListDesc(cdir, ids) ==
    IF ids = {} THEN <<>>
    ELSE LET m == CHOOSE x \in ids :
                    \A y \in ids : ~ StrLess(FormatId(cdir[x].id), FormatId(cdir[y].id))
         IN  <<cdir[m]>> \o ListDesc(cdir, ids \ {m})

list_commits(cdir) ==
    ListDesc(cdir, DOMAIN cdir)

Reverse(s) ==
    [i \in 1..Len(s) |-> s[Len(s) + 1 - i]]

(* Tree states are Python dicts: ordered by first insertion.  They are     *)
(* modelled as sequences of file entries with unique paths.                *)
DictSet(tree, file_entry) ==
    IF file_entry.path \in PathsOf(tree)
    THEN [i \in DOMAIN tree |->
            IF tree[i].path = file_entry.path THEN file_entry ELSE tree[i]]
    ELSE Append(tree, file_entry)

DictDel(tree, path) ==
    SelectSeq(tree, LAMBDA e : e.path # path)

\* The inner loop of both tree builders: apply one commit's file entries.
RECURSIVE ApplyFiles(_, _)
ApplyFiles(tree, files) ==
    IF files = <<>> THEN tree
    ELSE ApplyFiles(IF Head(files).action = "deleted"
                    THEN DictDel(tree, Head(files).path)
                    ELSE DictSet(tree, Head(files)),
                    Tail(files))

RECURSIVE ApplyCommits(_, _)
ApplyCommits(tree, chain) ==
    IF chain = <<>> THEN tree
    ELSE ApplyCommits(ApplyFiles(tree, Head(chain).files), Tail(chain))

\* commands/checkout/execute.py build_tree_state: the listed commits,
\* oldest first, up to and including the first one whose id is the target
\* (all of them when none is).
RECURSIVE UpToTarget(_, _)
UpToTarget(asc, commit_id) ==
    IF asc = <<>> THEN <<>>
    ELSE IF Head(asc).id = commit_id THEN <<Head(asc)>>
    ELSE <<Head(asc)>> \o UpToTarget(Tail(asc), commit_id)

checkout_build_tree_state(commit_id, cdir) ==
    ApplyCommits(<<>>, UpToTarget(Reverse(list_commits(cdir)), commit_id))

(* ---------------------------- commit cache ----------------------------- *)

\* _CommitCache._max_size
CacheMaxSize ==
    128

CacheHas(c, key) ==
    \E i \in DOMAIN c : c[i].key = key

\* _CommitCache.get for a key that is present (None and commits alike).
CacheGet(c, key) ==
    c[CHOOSE i \in DOMAIN c : c[i].key = key].val

\* _CommitCache.put: evict the oldest entry when full, then insert.
CachePut(c, key, value) ==
    LET kept == IF Len(c) >= CacheMaxSize THEN Tail(c) ELSE c
    IN  IF CacheHas(kept, key)
        THEN [i \in DOMAIN kept |->
                IF kept[i].key = key THEN [key |-> key, val |-> value] ELSE kept[i]]
        ELSE Append(kept, [key |-> key, val |-> value])

\* _load_commit_from_disk
load_commit_from_disk(commit_id, cdir) ==
    IF commit_id \in DOMAIN cdir THEN cdir[commit_id] ELSE NoneCommit

\* load_commit: the cached value when the key is in the cache, whatever it
\* is; else the value read from disk, which is put in the cache, whatever
\* it is.
load_commit(commit_id, cdir, c) ==
    IF CacheHas(c, commit_id)
    THEN [val |-> CacheGet(c, commit_id), cache |-> c]
    ELSE LET result == load_commit_from_disk(commit_id, cdir)
         IN  [val |-> result, cache |-> CachePut(c, commit_id, result)]

\* core/commits/tree.py build_tree_state: walk the parent chain through
\* load_commit, then fold the chain oldest first.
RECURSIVE WalkChain(_, _, _, _)
WalkChain(current_id, cdir, c, chain) ==
    IF current_id = 0 THEN [chain |-> chain, cache |-> c]
    ELSE LET r == load_commit(current_id, cdir, c)
         IN  IF r.val = NoneCommit THEN [chain |-> chain, cache |-> r.cache]
             ELSE WalkChain(r.val.parent, cdir, r.cache, Append(chain, r.val))

build_tree_state(commit_id, cdir, c) ==
    LET w == WalkChain(commit_id, cdir, c, <<>>)
    IN  [tree |-> ApplyCommits(<<>>, Reverse(w.chain)), cache |-> w.cache]

(* --------------------------- action inference -------------------------- *)

\* the hash comparison lost: every path the parent has counts as modified.
StagedAction_nocompare(staged_file, parent_files) ==
    IF staged_file.path \notin PathsOf(parent_files) THEN "added" ELSE "modified"

StagedAction(staged_file, parent_files) ==
    IF staged_file.path \notin PathsOf(parent_files) THEN "added"
    ELSE IF EntryAt(parent_files, staged_file.path).hash # staged_file.hash
         THEN "modified"
         ELSE "unchanged"

\* get_file_actions, after the parent's tree has been built: one labelled
\* entry per staged entry, then a deleted entry for every parent path that
\* is not staged, in the parent tree's order.
FileActions(staged_files, parent_files) ==
    LET labelled == [i \in DOMAIN staged_files |->
                       [path |-> staged_files[i].path,
                        hash |-> staged_files[i].hash,
                        action |-> StagedAction(staged_files[i], parent_files)]]
        gone == SelectSeq(parent_files,
                          LAMBDA e : e.path \notin PathsOf(staged_files))
        deleted == [i \in DOMAIN gone |->
                       [path |-> gone[i].path, hash |-> gone[i].hash,
                        action |-> "deleted"]]
    IN  labelled \o deleted

\* get_file_actions: the parent's tree is the checkout command's
\* build_tree_state of the parent id; no parent commit, no parent tree.
get_file_actions(staged_files, parent_commit, cdir) ==
    FileActions(staged_files,
                IF parent_commit # NoneCommit
                THEN checkout_build_tree_state(parent_commit.id, cdir)
                ELSE <<>>)

\* commit/execute.py: drop the unchanged entries.
files_to_commit(files_with_actions) ==
    SelectSeq(files_with_actions, LAMBDA f : f.action # "unchanged")

(* ------------------------- repository on disk -------------------------- *)

VARIABLES
    ofsdir,     \* .ofs/ and config.json exist
    ws,         \* workspace: path -> bytes, for the files that exist
    objects,    \* .ofs/objects: hash named by the path -> bytes of the file
    index,      \* .ofs/index.json: list of entries (missing reads as empty)
    commits,    \* .ofs/commits: id -> commit, for the files that exist
    head,       \* .ofs/HEAD
    mainref,    \* .ofs/refs/heads/main: a commit id, 0 when missing
    cache,      \* load.py _cache._store, in insertion order
    call        \* a library call in progress: its arguments and its result

vars ==
    <<ofsdir, ws, objects, index, commits, head, mainref, cache, call>>

Disk ==
    [ofsdir |-> ofsdir, ws |-> ws, objects |-> objects, index |-> index,
     commits |-> commits, head |-> head, mainref |-> mainref]

EmptyDir ==
    [x \in {} |-> 0]

\* Repository.is_initialized
is_initialized(d) ==
    d.ofsdir /\ d.head.tag # "missing"

(* One file-level write: a blob, a commit file, a ref, HEAD, index.json,   *)
(* a workspace file, or the removal of a workspace file.                   *)
ApplyWrite(d, w) ==
    CASE w.kind = "blob"   -> [d EXCEPT !.objects = (w.hash :> w.content) @@ d.objects]
      [] w.kind = "commit" -> [d EXCEPT !.commits = (w.commit.id :> w.commit) @@ d.commits]
      [] w.kind = "ref"    -> [d EXCEPT !.mainref = w.id]
      [] w.kind = "head"   -> [d EXCEPT !.head = w.value]
      [] w.kind = "index"  -> [d EXCEPT !.index = w.entries]
      [] w.kind = "ws"     -> [d EXCEPT !.ws = (w.path :> w.content) @@ d.ws]
      [] w.kind = "unlink" -> [d EXCEPT !.ws = [p \in DOMAIN d.ws \ {w.path} |-> d.ws[p]]]

RECURSIVE ApplyWrites(_, _)
ApplyWrites(d, writes) ==
    IF writes = <<>> THEN d
    ELSE ApplyWrites(ApplyWrite(d, Head(writes)), Tail(writes))

Kinds(writes) ==
    [i \in DOMAIN writes |-> writes[i].kind]

(* ------------------------------ ofs add -------------------------------- *)

\* The staging loop of add: per file, store the blob (a write only when no
\* file is at the hash's path), then Index.add, which saves index.json.
RECURSIVE AddLoop(_, _, _, _)
AddLoop(files_to_add, wsdir, objs, entries) ==
    IF files_to_add = <<>> THEN <<>>
    ELSE LET file_path == Head(files_to_add)
             content == wsdir[file_path]
             file_hash == compute_file_hash(wsdir, file_path)
             st == store(objs, content)
             added == IndexAdd(entries, file_path, file_hash)
         IN  (IF st.wrote
              THEN <<[kind |-> "blob", hash |-> st.hash, content |-> content]>>
              ELSE <<>>)
             \o <<[kind |-> "index", entries |-> added]>>
             \o AddLoop(Tail(files_to_add), wsdir, st.objects, added)

\* add/execute.py execute: paths that do not exist are skipped; no file
\* left to add is an error.
AddPlan(d, paths) ==
    IF ~ is_initialized(d) THEN [rc |-> 1, writes |-> <<>>]
    ELSE LET files_to_add == SelectSeq(paths, LAMBDA p : p \in DOMAIN d.ws)
         IN  IF files_to_add = <<>> THEN [rc |-> 1, writes |-> <<>>]
             ELSE [rc |-> 0,
                   writes |-> AddLoop(files_to_add, d.ws, d.objects, d.index)]

(* ----------------------------- ofs commit ------------------------------ *)

\* commit with HEAD updated before the commit file is saved.
CommitPlan_reffirst(d, c, msg_len) ==
    IF ~ is_initialized(d) \/ msg_len < 3 \/ d.index = <<>>
    THEN [rc |-> 1, writes |-> <<>>, cache |-> c]
    ELSE
      LET commit_id == generate_commit_id(d.commits)
          parent_id == resolve_head(d.head, d.mainref)
          loaded == IF parent_id # 0 THEN load_commit(parent_id, d.commits, c)
                    ELSE [val |-> NoneCommit, cache |-> c]
          files == files_to_commit(
                       get_file_actions(d.index, loaded.val, d.commits))
          commit_obj == [id |-> commit_id, parent |-> parent_id, files |-> files]
      IN  IF files = <<>> THEN [rc |-> 1, writes |-> <<>>, cache |-> loaded.cache]
          ELSE [rc |-> 0,
                writes |-> << update_head(d.head, commit_id, FALSE),
                              [kind |-> "commit", commit |-> commit_obj],
                              [kind |-> "index", entries |-> <<>>] >>,
                cache |-> loaded.cache]

\* commit/execute.py execute.  msg_len is the length of the stripped message.
CommitPlan(d, c, msg_len) ==
    IF ~ is_initialized(d) THEN [rc |-> 1, writes |-> <<>>, cache |-> c]
    ELSE IF msg_len < 3 THEN [rc |-> 1, writes |-> <<>>, cache |-> c]
    ELSE IF d.index = <<>> THEN [rc |-> 1, writes |-> <<>>, cache |-> c]
    ELSE
      LET commit_id == generate_commit_id(d.commits)
          parent_id == resolve_head(d.head, d.mainref)
          loaded == IF parent_id # 0 THEN load_commit(parent_id, d.commits, c)
                    ELSE [val |-> NoneCommit, cache |-> c]
          files == files_to_commit(
                       get_file_actions(d.index, loaded.val, d.commits))
          commit_obj == [id |-> commit_id, parent |-> parent_id, files |-> files]
      IN  IF files = <<>> THEN [rc |-> 1, writes |-> <<>>, cache |-> loaded.cache]
          ELSE [rc |-> 0,
                writes |-> << [kind |-> "commit", commit |-> commit_obj],
                              update_head(d.head, commit_id, FALSE),
                              [kind |-> "index", entries |-> <<>>] >>,
                cache |-> loaded.cache]

(* ---------------------------- ofs checkout ----------------------------- *)

\* The restore loop: retrieve each blob and write the workspace file; the
\* first blob that cannot be retrieved ends the command with an error.
\* The restore loop that passes over a blob it cannot restore.
RECURSIVE RestoreLoop_skip(_, _)
RestoreLoop_skip(files_to_restore, objs) ==
    IF files_to_restore = <<>> THEN [ok |-> TRUE, writes |-> <<>>]
    ELSE LET file_entry == Head(files_to_restore)
             got == retrieve(objs, file_entry.hash)
             rest == RestoreLoop_skip(Tail(files_to_restore), objs)
         IN  IF got.status # "ok" THEN rest
             ELSE [ok |-> rest.ok,
                   writes |-> <<[kind |-> "ws", path |-> file_entry.path,
                                 content |-> got.content]>> \o rest.writes]

RECURSIVE RestoreLoop(_, _)
RestoreLoop(files_to_restore, objs) ==
    IF files_to_restore = <<>> THEN [ok |-> TRUE, writes |-> <<>>]
    ELSE LET file_entry == Head(files_to_restore)
             got == retrieve(objs, file_entry.hash)
         IN  IF got.status # "ok" THEN [ok |-> FALSE, writes |-> <<>>]
             ELSE LET rest == RestoreLoop(Tail(files_to_restore), objs)
                  IN  [ok |-> rest.ok,
                       writes |-> <<[kind |-> "ws", path |-> file_entry.path,
                                     content |-> got.content]>> \o rest.writes]

\* Index.clear, then Index.add per restored entry: one save each.
IndexRebuild(files_to_restore) ==
    <<[kind |-> "index", entries |-> <<>>]>> \o
    [i \in DOMAIN files_to_restore |->
        [kind |-> "index",
         entries |-> [j \in 1..i |-> [path |-> files_to_restore[j].path,
                                      hash |-> files_to_restore[j].hash]]]]

\* files_to_remove: paths of the current HEAD's tree that the target tree
\* does not have.
FilesToRemove(d, commit_id) ==
    LET current_head == resolve_head(d.head, d.mainref)
        current_tree == IF current_head # 0
                        THEN checkout_build_tree_state(current_head, d.commits)
                        ELSE <<>>
    IN  PathsOf(current_tree) \ PathsOf(checkout_build_tree_state(commit_id, d.commits))

\* checkout/execute.py execute.  answer is the reply to the prompt shown
\* when the index has entries and --force is absent; remove_order is the
\* iteration order of the files_to_remove set.
CheckoutPlan(d, c, commit_id, force, answer, remove_order) ==
    IF ~ is_initialized(d) THEN [rc |-> 1, writes |-> <<>>, cache |-> c]
    ELSE
      LET loaded == load_commit(commit_id, d.commits, c)
          tree_state == checkout_build_tree_state(commit_id, d.commits)
          removals == SelectSeq(remove_order, LAMBDA p : p \in DOMAIN d.ws)
          restore == RestoreLoop(tree_state, d.objects)
      IN  IF loaded.val = NoneCommit
          THEN [rc |-> 1, writes |-> <<>>, cache |-> loaded.cache]
          ELSE IF ~ force /\ has_changes(d.index) /\ answer # "y"
          THEN [rc |-> 1, writes |-> <<>>, cache |-> loaded.cache]
          ELSE IF \E i \in DOMAIN tree_state : ~ exists(d.objects, tree_state[i].hash)
          THEN [rc |-> 1, writes |-> <<>>, cache |-> loaded.cache]
          ELSE IF ~ restore.ok
          THEN [rc |-> 1, writes |-> restore.writes, cache |-> loaded.cache]
          ELSE [rc |-> 0,
                writes |-> restore.writes
                           \o [i \in DOMAIN removals |->
                                 [kind |-> "unlink", path |-> removals[i]]]
                           \o IndexRebuild(tree_state)
                           \o <<update_head(d.head, commit_id, TRUE)>>,
                cache |-> loaded.cache]

(* ------------------------------ ofs verify ----------------------------- *)

\* verify_objects: every blob file's bytes hash to the name its path spells.
verify_objects(d) ==
    \A h \in DOMAIN d.objects : compute_hash(d.objects[h]) = h

\* verify_index: every entry names a blob that exists.
verify_index(d) ==
    \A i \in DOMAIN d.index : exists(d.objects, d.index[i].hash)

\* verify_commits: every file entry that is not a deletion names a blob
\* that exists.
verify_commits(d) ==
    \A id \in DOMAIN d.commits :
        \A i \in DOMAIN d.commits[id].files :
            d.commits[id].files[i].action = "deleted"
            \/ exists(d.objects, d.commits[id].files[i].hash)

\* verify_refs: HEAD exists and, when it resolves to an id, load_commit
\* finds that commit.
verify_refs(d, c) ==
    IF d.head.tag = "missing" THEN [ok |-> FALSE, cache |-> c]
    ELSE LET commit_id == resolve_head(d.head, d.mainref)
         IN  IF commit_id = 0 THEN [ok |-> TRUE, cache |-> c]
             ELSE LET loaded == load_commit(commit_id, d.commits, c)
                  IN  [ok |-> loaded.val # NoneCommit, cache |-> loaded.cache]

\* verify_repository: the four axes and the overall result.
verify_repository(d, c) ==
    IF ~ is_initialized(d)
    THEN [success |-> FALSE, objects |-> FALSE, index |-> FALSE,
          commits |-> FALSE, refs |-> FALSE, cache |-> c]
    ELSE LET refs == verify_refs(d, c)
         IN  [success |-> verify_objects(d) /\ verify_index(d)
                          /\ verify_commits(d) /\ refs.ok,
              objects |-> verify_objects(d), index |-> verify_index(d),
              commits |-> verify_commits(d), refs |-> refs.ok,
              cache |-> refs.cache]

(* ------------------------------- actions ------------------------------- *)

Install(d) ==
    /\ ofsdir' = d.ofsdir
    /\ ws' = d.ws
    /\ objects' = d.objects
    /\ index' = d.index
    /\ commits' = d.commits
    /\ head' = d.head
    /\ mainref' = d.mainref

\* A command returns.  exits: the process ends with the command (the ofs
\* command line), so the next command starts with an empty module cache;
\* otherwise the caller goes on in the same process (the Python API).
Return(c, exits) ==
    /\ cache' = IF exits THEN <<>> ELSE c
    /\ UNCHANGED call

NoCall ==
    [op |-> "none"]

Init ==
    /\ ofsdir = FALSE
    /\ ws = EmptyDir
    /\ objects = EmptyDir
    /\ index = <<>>
    /\ commits = EmptyDir
    /\ head = HeadMissing
    /\ mainref = 0
    /\ cache = <<>>
    /\ call = NoCall

\* Repository.initialize
CmdInit(exits) ==
    /\ ~ is_initialized(Disk)
    /\ ofsdir' = TRUE
    /\ head' = HeadSymbolic
    /\ index' = <<>>
    /\ Return(cache, exits)
    /\ UNCHANGED <<ws, objects, commits, mainref>>

CmdAdd(paths, exits) ==
    LET r == AddPlan(Disk, paths)
    IN  /\ Install(ApplyWrites(Disk, r.writes))
        /\ Return(cache, exits)

\* limit caps the ids the model allocates.
CmdCommit(msg_len, limit, exits) ==
    LET r == CommitPlan(Disk, cache, msg_len)
    IN  /\ r.rc = 0 => generate_commit_id(commits) <= limit
        /\ Install(ApplyWrites(Disk, r.writes))
        /\ Return(r.cache, exits)

CmdCheckout(commit_id, force, answer, remove_order, exits) ==
    LET r == CheckoutPlan(Disk, cache, commit_id, force, answer, remove_order)
    IN  /\ Install(ApplyWrites(Disk, r.writes))
        /\ Return(r.cache, exits)

CmdVerify(exits) ==
    /\ Return(verify_repository(Disk, cache).cache, exits)
    /\ UNCHANGED <<ofsdir, ws, objects, index, commits, head, mainref>>

\* A library call of core/commits/tree.py build_tree_state.
CallBuildTreeState(commit_id) ==
    /\ cache' = build_tree_state(commit_id, commits, cache).cache
    /\ UNCHANGED <<ofsdir, ws, objects, index, commits, head, mainref, call>>

\* The user edits or deletes a workspace file between commands.
UserWrite(path, content) ==
    /\ ws' = (path :> content) @@ ws
    /\ UNCHANGED <<ofsdir, objects, index, commits, head, mainref, cache, call>>

UserDelete(path) ==
    /\ path \in DOMAIN ws
    /\ ws' = [p \in DOMAIN ws \ {path} |-> ws[p]]
    /\ UNCHANGED <<ofsdir, objects, index, commits, head, mainref, cache, call>>

\* The answers to checkout's prompt, with and without --force.
CheckoutModes ==
    {<<TRUE, "n">>, <<FALSE, "y">>, <<FALSE, "n">>}

Checkouts(limit, exits) ==
    \E commit_id \in 1..limit, mode \in CheckoutModes :
        \E remove_order \in Perms(FilesToRemove(Disk, commit_id)) :
            CmdCheckout(commit_id, mode[1], mode[2], remove_order, exits)

Edits ==
    \/ \E path \in Paths, content \in UserBytes : UserWrite(path, content)
    \/ \E path \in Paths : UserDelete(path)

(* The ofs command line: one process per command.                          *)
Next ==
    \/ CmdInit(TRUE)
    \/ \E paths \in Orderings(Paths) \ {<<>>} : CmdAdd(paths, TRUE)
    \/ \E msg_len \in {2, 3} : CmdCommit(msg_len, MaxCommits, TRUE)
    \/ Checkouts(MaxCommits, TRUE)
    \/ Edits

Spec ==
    Init /\ [][Next]_vars

(* The commands called through the Python API: a process runs any number   *)
(* of them and shares the module-level commit cache between them.          *)
NextProc ==
    \/ \E exits \in BOOLEAN : CmdInit(exits)
    \/ \E paths \in Orderings(Paths) \ {<<>>}, exits \in BOOLEAN : CmdAdd(paths, exits)
    \/ \E msg_len \in {2, 3}, exits \in BOOLEAN :
          CmdCommit(msg_len, MaxProcCommits, exits)
    \/ \E exits \in BOOLEAN : Checkouts(MaxProcCommits, exits)
    \/ \E exits \in BOOLEAN : CmdVerify(exits)
    \/ \E commit_id \in 1..MaxProcCommits : CallBuildTreeState(commit_id)
    \/ Edits

SpecProc ==
    Init /\ [][NextProc]_vars

(* ----------------------- the object store alone ------------------------ *)

\* Every state of the objects directory: at the path of each hash, no file
\* or a file with any bytes.
ObjectDirs ==
    UNION {[S -> Bytes] : S \in SUBSET Hashes}

InitStore ==
    /\ ofsdir = TRUE
    /\ ws = EmptyDir
    /\ objects \in ObjectDirs
    /\ index = <<>>
    /\ commits = EmptyDir
    /\ head = HeadSymbolic
    /\ mainref = 0
    /\ cache = <<>>
    /\ call = NoCall

\* store(content); before is what was at the path of the hash (0: no file).
StoreCall(content) ==
    LET st == store(objects, content)
    IN  /\ call.op # "store"
        /\ objects' = st.objects
        /\ call' = [op |-> "store", content |-> content, hash |-> st.hash,
                    before |-> IF exists(objects, st.hash)
                               THEN objects[st.hash] ELSE 0,
                    status |-> "", got |-> 0]
        /\ UNCHANGED <<ofsdir, ws, index, commits, head, mainref, cache>>

\* retrieve(h) right after store returned h.
RetrieveCall ==
    LET got == retrieve(objects, call.hash)
    IN  /\ call.op = "store"
        /\ call' = [call EXCEPT !.op = "retrieve", !.status = got.status,
                                !.got = got.content]
        /\ UNCHANGED <<ofsdir, ws, objects, index, commits, head, mainref, cache>>

\* retrieve(h) and verify(h) of any hash, on the same directory.
ProbeCall(hash_value) ==
    LET got == retrieve(objects, hash_value)
        ver == verify(objects, hash_value)
    IN  /\ call' = [op |-> "probe", content |-> 0, hash |-> hash_value,
                    before |-> 0, status |-> got.status, got |-> got.content,
                    verify_status |-> ver.status, verify_value |-> ver.value]
        /\ UNCHANGED <<ofsdir, ws, objects, index, commits, head, mainref, cache>>

NextStore ==
    \/ \E content \in Bytes : StoreCall(content)
    \/ RetrieveCall
    \/ \E hash_value \in Hashes : ProbeCall(hash_value)

SpecStore ==
    InitStore /\ [][NextStore]_vars

\* C1 as stated: whatever the objects directory held, retrieve(h) right
\* after store(B) = h returns exactly B.
C1_BlobIdentityAnyDir ==
    call.op = "retrieve" => (call.status = "ok" /\ call.got = call.content)

\* C1 amended: retrieve(h) right after store(B) = h returns exactly B when
\* the path of h held no file or a file whose bytes hash to h; when it held
\* other bytes, store leaves them and retrieve fails with Corruption.
C1_BlobIdentity ==
    call.op = "retrieve" =>
        IF call.before = 0 \/ compute_hash(call.before) = call.hash
        THEN call.status = "ok" /\ call.got = call.content
        ELSE call.status = "corrupt" /\ objects[call.hash] = call.before

\* C1 witness: store found a valid file at the path, wrote nothing, and
\* retrieve returned the bytes.
C1_Witness ==
    /\ call.op = "retrieve"
    /\ call.before # 0
    /\ compute_hash(call.before) = call.hash
    /\ call.status = "ok"

(* ------------------------ action inference alone ----------------------- *)

\* Entry lists with unique paths: what an index or a tree state can hold.
EntryLists ==
    UNION {{[i \in DOMAIN order |-> [path |-> order[i], hash |-> hs[i]]] :
               hs \in [DOMAIN order -> Hashes]} : order \in Orderings(Paths)}

\* A commits directory whose only commit has the given tree.
RootCommit(tree) ==
    [id |-> 1, parent |-> 0,
     files |-> [i \in DOMAIN tree |->
                  [path |-> tree[i].path, hash |-> tree[i].hash, action |-> "added"]]]

InitActions ==
    /\ ofsdir = TRUE
    /\ ws = EmptyDir
    /\ objects = EmptyDir
    /\ \E staged \in EntryLists, parent \in EntryLists :
          /\ index = staged
          /\ commits = IF parent = <<>> THEN EmptyDir ELSE (1 :> RootCommit(parent))
          /\ call = [op |-> "staged", parent |-> parent]
    /\ head = HeadSymbolic
    /\ mainref = IF commits = EmptyDir THEN 0 ELSE 1
    /\ cache = <<>>

\* get_file_actions on the index and HEAD's commit, then the filter of the
\* commit command.
ActionsCall ==
    LET parent_commit == load_commit_from_disk(mainref, commits)
        out == get_file_actions(index, parent_commit, commits)
    IN  /\ call.op = "staged"
        /\ call' = [op |-> "actions", parent |-> call.parent, out |-> out,
                    kept |-> files_to_commit(out)]
        /\ UNCHANGED <<ofsdir, ws, objects, index, commits, head, mainref, cache>>

SpecActions ==
    InitActions /\ [][ActionsCall]_vars

EntriesWith(entries, action) ==
    {i \in DOMAIN entries : entries[i].action = action}

\* C5: every staged entry is labelled added / modified / unchanged by the
\* parent tree, every parent path that is not staged gets exactly one
\* deleted entry with the parent's hash, nothing else is emitted, and the
\* entries kept for the commit are the emitted ones that are not unchanged.
C5_FileActions ==
    call.op = "actions" =>
      LET S == index
          P == HashMap(call.parent)
          out == call.out
          gone == DOMAIN P \ PathsOf(S)
      IN  /\ Len(out) = Len(S) + Cardinality(gone)
          /\ \A i \in DOMAIN S :
                /\ out[i].path = S[i].path
                /\ out[i].hash = S[i].hash
                /\ out[i].action =
                     IF S[i].path \notin DOMAIN P THEN "added"
                     ELSE IF P[S[i].path] # S[i].hash THEN "modified"
                     ELSE "unchanged"
          /\ \A p \in gone :
                Cardinality({i \in EntriesWith(out, "deleted") :
                                out[i].path = p /\ out[i].hash = P[p]}) = 1
          /\ \A i \in EntriesWith(out, "deleted") :
                i > Len(S) /\ out[i].path \in gone
          /\ EntriesWith(call.kept, "unchanged") = {}
          /\ Len(call.kept) = Len(out) - Cardinality(EntriesWith(out, "unchanged"))
          /\ \A i \in DOMAIN out :
                out[i].action # "unchanged" => out[i] \in Range(call.kept)

\* C5 witness: one call labels an entry unchanged and emits a deleted one.
C5_Witness ==
    /\ call.op = "actions"
    /\ EntriesWith(call.out, "unchanged") # {}
    /\ EntriesWith(call.out, "deleted") # {}
    /\ Len(call.kept) < Len(call.out)

(* ------------- what the claims mean by the tree of a commit ------------- *)

\* The left fold of file actions over the parent chain of a commit, oldest
\* first, as a map path -> hash: deleted removes the path, any other action
\* sets it; a missing commit ends the chain.
RECURSIVE FoldFiles(_, _)
FoldFiles(tree, files) ==
    IF files = <<>> THEN tree
    ELSE LET f == Head(files)
             next == IF f.action = "deleted"
                     THEN [p \in DOMAIN tree \ {f.path} |-> tree[p]]
                     ELSE [p \in DOMAIN tree \cup {f.path} |->
                             IF p = f.path THEN f.hash ELSE tree[p]]
         IN  FoldFiles(next, Tail(files))

RECURSIVE ChainTree(_, _)
ChainTree(commit_id, cdir) ==
    IF commit_id \notin DOMAIN cdir THEN EmptyDir
    ELSE FoldFiles(ChainTree(cdir[commit_id].parent, cdir), cdir[commit_id].files)

(* ---------------------------- C2: tree fold ----------------------------- *)

\* C2: for every commit, core/commits/tree.py build_tree_state gives the
\* left fold of the file actions on the commit's parent chain.
C2_TreeFold ==
    \A id \in DOMAIN commits :
        HashMap(build_tree_state(id, commits, cache).tree) = ChainTree(id, commits)

(* ------------------------ C3: checkout postcondition -------------------- *)

\* What C3 promises of the state after a successful checkout of commit_id,
\* given the HEAD the command started from.
CheckoutPost(commit_id, old_head, wsdir, entries, hd, objs, cdir) ==
    LET T == ChainTree(commit_id, cdir)
        old == ChainTree(old_head, cdir)
    IN  /\ \A p \in DOMAIN T :
              p \in DOMAIN wsdir /\ T[p] \in DOMAIN objs /\ wsdir[p] = objs[T[p]]
        /\ \A p \in DOMAIN old \ DOMAIN T : p \notin DOMAIN wsdir
        /\ HashMap(entries) = T
        /\ hd = HeadDetached(commit_id)
        /\ is_detached_head(hd)

\* C3: after checkout(id) returns success, the workspace, the index and
\* HEAD are those of the parent-chain tree of id.
C3_CheckoutRestores ==
    [][\A commit_id \in CommitIds, mode \in CheckoutModes :
         \A remove_order \in Perms(FilesToRemove(Disk, commit_id)) :
           (/\ CheckoutPlan(Disk, cache, commit_id, mode[1], mode[2], remove_order).rc = 0
            /\ CmdCheckout(commit_id, mode[1], mode[2], remove_order, TRUE))
           => CheckoutPost(commit_id, resolve_head(head, mainref),
                           ws', index', head', objects', commits')]_vars

(* ------------------------ C4: commit on a branch ------------------------ *)

Crash(writes, k) ==
    /\ k \in 1..(Len(writes) - 1)
    /\ Install(ApplyWrites(Disk, SubSeq(writes, 1, k)))
    /\ Return(<<>>, TRUE)

CrashAdd(paths, k) ==
    Crash(AddPlan(Disk, paths).writes, k)

CrashCommit(k) ==
    /\ generate_commit_id(commits) <= MaxCrashCommits
    /\ Crash(CommitPlan(Disk, cache, 3).writes, k)

CrashCheckout(commit_id, remove_order, k) ==
    Crash(CheckoutPlan(Disk, cache, commit_id, TRUE, "n", remove_order).writes, k)

NextCrash ==
    \/ CmdInit(TRUE)
    \/ \E paths \in Orderings(Paths) \ {<<>>} : CmdAdd(paths, TRUE)
    \/ \E msg_len \in {2, 3} : CmdCommit(msg_len, MaxCrashCommits, TRUE)
    \/ Checkouts(MaxCrashCommits, TRUE)
    \/ Edits
    \/ \E paths \in Orderings(Paths) \ {<<>>} :
          \E k \in 1..Len(AddPlan(Disk, paths).writes) : CrashAdd(paths, k)
    \/ \E k \in 1..Len(CommitPlan(Disk, cache, 3).writes) : CrashCommit(k)
    \/ \E commit_id \in 1..MaxCrashCommits :
          \E remove_order \in Perms(FilesToRemove(Disk, commit_id)) :
              \E k \in 1..Len(CheckoutPlan(Disk, cache, commit_id, TRUE, "n",
                                            remove_order).writes) :
                  CrashCheckout(commit_id, remove_order, k)

SpecCrash ==
    Init /\ [][NextCrash]_vars

\* C6: whatever prefix of a command's writes reached the disk, a verify run
\* in a new process passes on all four axes.
C6_VerifiableAfterCrash ==
    is_initialized(Disk) =>
        LET v == verify_repository(Disk, <<>>)
        IN  v.objects /\ v.index /\ v.commits /\ v.refs /\ v.success

\* C6 witness: the first commit's file is on disk and no ref names it, which
\* only a commit stopped after save_commit leaves behind.
C6_Witness ==
    /\ DOMAIN commits = {1}
    /\ resolve_head(head, mainref) = 0
    /\ index # <<>>
    /\ verify_repository(Disk, <<>>).success

(* --------------------------- C7: write order ---------------------------- *)

WriteRank(kind) ==
    CASE kind = "blob" -> 1
      [] kind = "commit" -> 2
      [] kind = "ref" -> 3
      [] kind = "head" -> 3
      [] kind = "index" -> 4

\* The repository writes of a plan come blobs first, then commit files,
\* then refs and HEAD, then index.json.
InOrder(writes) ==
    LET repo == SelectSeq(writes, LAMBDA w : w.kind \notin {"ws", "unlink"})
    IN  \A i, j \in DOMAIN repo :
            i < j => WriteRank(repo[i].kind) <= WriteRank(repo[j].kind)

\* C7: every add, commit and checkout writes blobs, then commit files, then
\* refs and HEAD, then index.json.
C7_WriteOrder ==
    [][/\ \A paths \in Orderings(Paths) \ {<<>>} :
            CmdAdd(paths, TRUE) => InOrder(AddPlan(Disk, paths).writes)
       /\ \A msg_len \in {2, 3} :
            CmdCommit(msg_len, MaxCommits, TRUE)
                => InOrder(CommitPlan(Disk, cache, msg_len).writes)
       /\ \A commit_id \in CommitIds, mode \in CheckoutModes :
            \A remove_order \in Perms(FilesToRemove(Disk, commit_id)) :
              CmdCheckout(commit_id, mode[1], mode[2], remove_order, TRUE)
                => InOrder(CheckoutPlan(Disk, cache, commit_id, mode[1], mode[2],
                                        remove_order).writes)]_vars

(* ------------------- C8, C9: the shared commit cache -------------------- *)

\* C8: after any sequence of commands, also in one process, verify passes.
C8_AlwaysVerifiable ==
    is_initialized(Disk) => verify_repository(Disk, cache).success

\* C9: a failed load is not remembered: load_commit of a commit that is on
\* disk returns it, and a forced checkout of it succeeds, whatever was
\* loaded earlier in the process.
C9_NoNegativeCaching ==
    \A id \in DOMAIN commits :
        /\ load_commit(id, commits, cache).val = commits[id]
        /\ \A remove_order \in Perms(FilesToRemove(Disk, id)) :
              CheckoutPlan(Disk, cache, id, TRUE, "n", remove_order).rc = 0

(* --------------------------- C10: linear chain -------------------------- *)

\* C10: once there is a commit, exactly one commit has no parent and no two
\* commits have the same parent.
C10_LinearChain ==
    DOMAIN commits # {} =>
        /\ Cardinality({id \in DOMAIN commits : commits[id].parent = 0}) = 1
        /\ \A a, b \in DOMAIN commits :
              a # b => commits[a].parent # commits[b].parent

(* ------------------- C11, C13: the commits directory ------------------- *)

\* C11: the parent of every commit is absent or the id of an existing
\* commit with a strictly smaller number.
C11_ParentIsOlder ==
    \A id \in DOMAIN commits :
        \/ commits[id].parent = 0
        \/ /\ commits[id].parent \in DOMAIN commits
           /\ commits[id].parent < id

\* C11 witness: a commit made on a detached HEAD, whose parent is not the
\* commit before it.
C11_Witness ==
    /\ DOMAIN commits = {1, 2, 3}
    /\ commits[3].parent = 1
    /\ commits[2].parent = 1

LetterChar ==
    10

SuperscriptChar ==
    11

StemChars ==
    {0, 1, 9, LetterChar, SuperscriptChar}

Stems ==
    UNION {[1..n -> StemChars] : n \in 1..MaxStemLen}

\* The listings with at most n stems.
RECURSIVE StemSetsUpTo(_)
StemSetsUpTo(n) ==
    IF n = 0 THEN {{}}
    ELSE LET smaller == StemSetsUpTo(n - 1)
         IN  smaller \cup {S \cup {stem} : S \in smaller, stem \in Stems}

StemSets ==
    StemSetsUpTo(MaxStems)

\* str.isdigit()
isdigit(stem) ==
    stem # <<>> /\ \A i \in DOMAIN stem : stem[i] \in (0..9) \cup {SuperscriptChar}

\* int(stem): ok is FALSE where int() raises.
RECURSIVE IntValue(_)
IntValue(stem) ==
    IF stem = <<>> THEN 0
    ELSE 10 * IntValue(SubSeq(stem, 1, Len(stem) - 1)) + stem[Len(stem)]

int(stem) ==
    IF \A i \in DOMAIN stem : stem[i] \in 0..9
    THEN [ok |-> TRUE, value |-> IntValue(stem)]
    ELSE [ok |-> FALSE, value |-> 0]

\* The loop over commit_files: collect int(stem) of the stems that pass
\* isdigit() and convert.
RECURSIVE CollectIds(_)
CollectIds(stems) ==
    IF stems = {} THEN {}
    ELSE LET stem == CHOOSE x \in stems : TRUE
             rest == CollectIds(stems \ {stem})
         IN  IF isdigit(stem) /\ int(stem).ok
             THEN rest \cup {int(stem).value}
             ELSE rest

\* generate_commit_id that counts the ids instead of taking the maximum.
generate_commit_id_count(dir_exists, stems) ==
    IF ~ dir_exists \/ stems = {} THEN FormatId(1)
    ELSE FormatId(Cardinality(CollectIds(stems)) + 1)

\* generate_commit_id over a directory listing, as strings.
generate_commit_id_str(dir_exists, stems) ==
    IF ~ dir_exists THEN FormatId(1)
    ELSE IF stems = {} THEN FormatId(1)
    ELSE LET ids == CollectIds(stems)
         IN  IF ids = {} THEN FormatId(1)
             ELSE FormatId((CHOOSE m \in ids : \A x \in ids : x <= m) + 1)

InitIds ==
    /\ ofsdir = TRUE
    /\ ws = EmptyDir
    /\ objects = EmptyDir
    /\ index = <<>>
    /\ commits = EmptyDir
    /\ head = HeadSymbolic
    /\ mainref = 0
    /\ cache = <<>>
    /\ \E dir_exists \in BOOLEAN, stems \in StemSets :
          /\ (~ dir_exists => stems = {})
          /\ call = [op |-> "listing", dir_exists |-> dir_exists,
                     stems |-> stems, id |-> <<>>]

GenerateCall ==
    /\ call.op = "listing"
    /\ call' = [call EXCEPT !.op = "generate_commit_id",
                            !.id = generate_commit_id_str(call.dir_exists, call.stems)]
    /\ UNCHANGED <<ofsdir, ws, objects, index, commits, head, mainref, cache>>

SpecIds ==
    InitIds /\ [][GenerateCall]_vars

DecimalStems(stems) ==
    {stem \in stems : \A i \in DOMAIN stem : stem[i] \in 0..9}

\* C12: the id is "001" when the directory is missing or has no all-digit
\* stem; otherwise its number is one more than the largest all-digit stem's;
\* it is zero-padded to width 3 and no wider than needed; it is no stem of
\* the directory.
C12_NextId ==
    call.op = "generate_commit_id" =>
        LET digits == DecimalStems(call.stems)
            id == call.id
        IN  /\ \A i \in DOMAIN id : id[i] \in 0..9
            /\ Len(id) >= 3
            /\ (Len(id) > 3 => id[1] # 0)
            /\ (digits = {} => id = <<0, 0, 1>>)
            /\ (digits # {} =>
                  /\ \A stem \in digits : IntValue(stem) < IntValue(id)
                  /\ \E stem \in digits : IntValue(stem) + 1 = IntValue(id))
            /\ id \notin call.stems

\* C12 witness: a gap, a stem that is not all digits, and an id that needs
\* four digits.
C12_Witness ==
    /\ call.op = "generate_commit_id"
    /\ \E stem \in call.stems : stem \notin DecimalStems(call.stems)
    /\ <<9, 9, 9>> \in call.stems
    /\ call.id = <<1, 0, 0, 0>>

(* --------------------- C14, C15: the object store ----------------------- *)

\* C14: store(B) leaves a file at the path of hash(B) and creates no file
\* anywhere else, so any number of store(B) calls leave one file for B; a
\* store(B) that finds a file at that path returns the hash without writing.
C14_Dedup ==
    [][\A content \in Bytes :
         StoreCall(content) =>
            LET h == compute_hash(content)
            IN  /\ call'.hash = h
                /\ DOMAIN objects' = DOMAIN objects \cup {h}
                /\ (h \notin DOMAIN objects => objects'[h] = content)
                /\ (h \in DOMAIN objects =>
                      /\ objects' = objects
                      /\ ~ store(objects, content).wrote)]_vars

\* C14 witness: a store(B) that found the file of an earlier store(B).
C14_Witness ==
    /\ call.op = "store"
    /\ call.before = call.content
    /\ objects[call.hash] = call.content
    /\ Cardinality(DOMAIN objects) = 1

\* C15: retrieve(h) fails with not-found when there is no file for h, with
\* Corruption when the file's bytes do not hash to h, and else returns the
\* file's bytes; verify(h) is true when retrieve succeeds, false when it
\* fails with Corruption, and fails with not-found when the file is missing.
C15_RetrieveVerify ==
    call.op = "probe" =>
        LET h == call.hash
        IN  IF h \notin DOMAIN objects
            THEN call.status = "notfound" /\ call.verify_status = "notfound"
            ELSE IF compute_hash(objects[h]) # h
            THEN /\ call.status = "corrupt"
                 /\ call.verify_status = "ok" /\ call.verify_value = FALSE
            ELSE /\ call.status = "ok" /\ call.got = objects[h]
                 /\ compute_hash(call.got) = h
                 /\ call.verify_status = "ok" /\ call.verify_value = TRUE

\* C15 witness: a file whose bytes do not hash to its name was probed.
C15_Witness ==
    /\ call.op = "probe"
    /\ call.hash \in DOMAIN objects
    /\ compute_hash(objects[call.hash]) # call.hash
    /\ call.status = "corrupt"
    /\ call.verify_value = FALSE

(* ------------------------- C16: blobs are kept ------------------------- *)

(* The commands on a repository whose objects directory already holds      *)
(* files, with bytes that hash to their names or not, at the paths the     *)
(* workspace contents hash to.                                             *)
InitBlobs ==
    /\ ofsdir = TRUE
    /\ ws = EmptyDir
    /\ objects \in {d \in ObjectDirs :
                      DOMAIN d \subseteq {compute_hash(b) : b \in UserBytes}}
    /\ index = <<>>
    /\ commits = EmptyDir
    /\ head = HeadSymbolic
    /\ mainref = 0
    /\ cache = <<>>
    /\ call = NoCall

NextBlobs ==
    \/ \E paths \in Orderings(Paths) \ {<<>>} : CmdAdd(paths, TRUE)
    \/ \E msg_len \in {2, 3} : CmdCommit(msg_len, MaxCommits, TRUE)
    \/ Checkouts(MaxCommits, TRUE)
    \/ Edits

SpecBlobs ==
    InitBlobs /\ [][NextBlobs]_vars

\* C16: no step removes a blob file or changes its bytes, whether or not
\* the bytes hash to the file's name.
C16_BlobsKept ==
    [][\A h \in DOMAIN objects :
          h \in DOMAIN objects' /\ objects'[h] = objects[h]]_vars

\* C16 witness: a file was staged whose blob path held other bytes, and the
\* other bytes are still there.
C16_Witness ==
    \E i \in DOMAIN index :
        /\ index[i].hash \in DOMAIN objects
        /\ compute_hash(objects[index[i].hash]) # index[i].hash
        /\ index[i].path \in DOMAIN ws
        /\ compute_file_hash(ws, index[i].path) = index[i].hash

(* ------------------- C17, C18, C19: the Index object ------------------- *)

(* One Index object and its file.  The file is missing, a JSON list of     *)
(* entries ("json", the list is the variable index), text that is not      *)
(* JSON ("badjson") or bytes that are not text ("badbytes").  The object   *)
(* is the record self: _entries, _entries_by_path and the number of _save  *)
(* calls of the last operation.                                            *)
FileKinds ==
    {"missing", "json", "badjson", "badbytes"}

\* Index._load: [] for a missing file and on JSONDecodeError; read_text's
\* UnicodeDecodeError is not caught.
_load(file, disk_entries) ==
    IF file = "missing" THEN [raised |-> FALSE, entries |-> <<>>]
    ELSE IF file = "badbytes" THEN [raised |-> TRUE, entries |-> <<>>]
    ELSE IF file = "badjson" THEN [raised |-> FALSE, entries |-> <<>>]
    ELSE [raised |-> FALSE, entries |-> disk_entries]

\* {e["path"]: e for e in self._entries}
ByPath(entries) ==
    [p \in PathsOf(entries) |-> EntryAt(entries, p)]

\* The body shared by add and batch_add: replace or append one entry.
PutEntry(self, file_path, hash_value) ==
    LET entry == [path |-> file_path, hash |-> hash_value]
        kept == IF file_path \in DOMAIN self.by_path
                THEN SelectSeq(self.entries, LAMBDA e : e.path # file_path)
                ELSE self.entries
    IN  [self EXCEPT !.entries = Append(kept, entry),
                     !.by_path = (file_path :> entry) @@ self.by_path]

\* batch_add that saves after every entry.
RECURSIVE PutAll_saving(_, _)
PutAll_saving(self, batch) ==
    IF batch = <<>> THEN self
    ELSE LET put == PutEntry(self, Head(batch)[1], Head(batch)[2])
         IN  PutAll_saving([put EXCEPT !.saves = @ + 1], Tail(batch))

\* The loop of batch_add.
RECURSIVE PutAll(_, _)
PutAll(self, batch) ==
    IF batch = <<>> THEN self
    ELSE PutAll(PutEntry(self, Head(batch)[1], Head(batch)[2]), Tail(batch))

\* remove that keeps the map entry.
DropEntry_keepmap(self, file_path) ==
    [self EXCEPT !.entries = SelectSeq(self.entries, LAMBDA e : e.path # file_path)]

\* remove's two statements on a path that is in the map.
DropEntry(self, file_path) ==
    [self EXCEPT !.entries = SelectSeq(self.entries, LAMBDA e : e.path # file_path),
                 !.by_path = [p \in DOMAIN self.by_path \ {file_path} |->
                                self.by_path[p]]]

Batches ==
    UNION {[1..n -> Paths \X Hashes] : n \in 0..MaxBatch}

InitIndex ==
    /\ ofsdir = TRUE
    /\ ws = EmptyDir
    /\ objects = EmptyDir
    /\ commits = EmptyDir
    /\ head = HeadSymbolic
    /\ mainref = 0
    /\ cache = <<>>
    /\ \E file \in FileKinds :
          /\ index \in (IF file = "json" THEN EntryLists ELSE {<<>>})
          /\ call = [op |-> "none", file |-> file, entries |-> <<>>,
                     by_path |-> <<>>, saves |-> 0, ret |-> TRUE, args |-> <<>>]

\* Index.__init__
IndexNew ==
    LET loaded == _load(call.file, index)
    IN  /\ call.op = "none"
        /\ call' = IF loaded.raised
                   THEN [call EXCEPT !.op = "raised"]
                   ELSE [call EXCEPT !.op = "init",
                                     !.entries = loaded.entries,
                                     !.by_path = ByPath(loaded.entries)]
        /\ UNCHANGED <<ofsdir, ws, objects, index, commits, head, mainref, cache>>

\* The object exists.
Constructed ==
    call.op \notin {"none", "raised"}

\* The end of an operation: _save writes self._entries once per counted
\* save; without a save the file is left as it is.
Finish(op, self, ret, args) ==
    /\ call' = [op |-> op, file |-> IF self.saves > 0 THEN "json" ELSE call.file,
                entries |-> self.entries, by_path |-> self.by_path,
                saves |-> self.saves, ret |-> ret, args |-> args]
    /\ index' = IF self.saves > 0 THEN self.entries ELSE index
    /\ UNCHANGED <<ofsdir, ws, objects, commits, head, mainref, cache>>

Self ==
    [entries |-> call.entries, by_path |-> call.by_path, saves |-> 0]

\* Index.add
IndexAddCall(file_path, hash_value) ==
    /\ Constructed
    /\ Finish("add", [PutEntry(Self, file_path, hash_value) EXCEPT !.saves = 1],
              TRUE, <<<<file_path, hash_value>>>>)

\* Index.batch_add
IndexBatchAddCall(batch) ==
    /\ Constructed
    /\ Finish("batch_add", [PutAll(Self, batch) EXCEPT !.saves = @ + 1],
              TRUE, batch)

\* Index.remove
IndexRemoveCall(file_path) ==
    /\ Constructed
    /\ IF file_path \notin DOMAIN call.by_path
       THEN Finish("remove", Self, FALSE, <<>>)
       ELSE Finish("remove", [DropEntry(Self, file_path) EXCEPT !.saves = 1],
                   TRUE, <<>>)

\* Index.clear
IndexClearCall ==
    /\ Constructed
    /\ Finish("clear", [entries |-> <<>>, by_path |-> <<>>, saves |-> 1],
              TRUE, <<>>)

NextIndex ==
    \/ IndexNew
    \/ \E file_path \in Paths, hash_value \in Hashes :
          IndexAddCall(file_path, hash_value)
    \/ \E batch \in Batches : IndexBatchAddCall(batch)
    \/ \E file_path \in Paths : IndexRemoveCall(file_path)
    \/ IndexClearCall

SpecIndex ==
    InitIndex /\ [][NextIndex]_vars

\* The hash of the last tuple of a batch that names the path.
LastHash(batch, file_path) ==
    batch[CHOOSE k \in DOMAIN batch :
            /\ batch[k][1] = file_path
            /\ \A later \in DOMAIN batch : later > k => batch[later][1] # file_path][2]

\* C17: the entry list has no two entries with one path, the map's keys are
\* the list's paths, each key maps to the list's entry for it, and a path
\* just added holds the hash added last.
C17_IndexPathsUnique ==
    Constructed =>
        /\ \A i, j \in DOMAIN call.entries :
              i # j => call.entries[i].path # call.entries[j].path
        /\ DOMAIN call.by_path = PathsOf(call.entries)
        /\ \A i \in DOMAIN call.entries :
              call.by_path[call.entries[i].path] = call.entries[i]
        /\ (call.op \in {"add", "batch_add"} =>
              \A k \in DOMAIN call.args :
                  call.by_path[call.args[k][1]].hash
                      = LastHash(call.args, call.args[k][1]))

\* C17 witness: a batch named one path twice with different hashes, next to
\* an entry for the other path.
C17_Witness ==
    /\ call.op = "batch_add"
    /\ Len(call.args) = 2
    /\ call.args[1][1] = call.args[2][1]
    /\ call.args[1][2] # call.args[2][2]
    /\ Len(call.entries) = 2

\* C18: after add, batch_add, clear and a remove that returned true, the
\* file was saved exactly once and loads to the in-memory entry list; a
\* remove returns true exactly when the path was in the index, and when it
\* returns false it saves nothing and leaves the file as it was.
C18_IndexPersisted ==
    [][/\ (call'.op \in {"add", "batch_add", "clear"}
             \/ (call'.op = "remove" /\ call'.ret))
          => /\ call'.saves = 1
             /\ _load(call'.file, index') = [raised |-> FALSE, entries |-> call'.entries]
       /\ \A file_path \in Paths :
            IndexRemoveCall(file_path) =>
               /\ call'.ret = (file_path \in PathsOf(call.entries))
               /\ (~ call'.ret =>
                     /\ call'.saves = 0
                     /\ index' = index
                     /\ call'.file = call.file)]_vars

\* C18 witness: a batch of two entries was saved once and the file holds
\* the in-memory list.
C18_Witness ==
    /\ call.op = "batch_add"
    /\ Len(call.args) = 2
    /\ call.args[1][1] # call.args[2][1]
    /\ call.saves = 1
    /\ call.file = "json"
    /\ index = call.entries
    /\ Len(index) = 2

\* C19: while index.json is a file that fails to parse, an Index made from
\* it exists, is empty, has no changes and has saved nothing.
C19_CorruptLoadsEmpty ==
    (call.file \in {"badjson", "badbytes"} /\ call.op # "none") =>
        /\ Constructed
        /\ call.entries = <<>>
        /\ ~ has_changes(call.entries)
        /\ call.saves = 0

(* ------------------------- C20: refused commits ------------------------ *)

\* Every staged entry is unchanged against the tree of the commit HEAD
\* resolves to, and no path of that tree is missing from the staged set.
NothingChanged ==
    LET parent_id == resolve_head(head, mainref)
    IN  /\ parent_id \in DOMAIN commits
        /\ index # <<>>
        /\ HashMap(index) = ChainTree(parent_id, commits)

\* C20: commit fails and writes nothing when the repository is not
\* initialized, the message is shorter than 3 characters, the index is
\* empty, or nothing is changed against the parent tree.
C20_CommitRefused ==
    \A msg_len \in {2, 3} :
        (\/ ~ is_initialized(Disk)
         \/ msg_len < 3
         \/ index = <<>>
         \/ NothingChanged)
        => /\ CommitPlan(Disk, cache, msg_len).rc = 1
           /\ CommitPlan(Disk, cache, msg_len).writes = <<>>

(* ------------------ C21: checkout on a damaged store -------------------- *)

\* A blob file is removed behind the commands' back.
DeleteBlob(hash_value) ==
    /\ hash_value \in DOMAIN objects
    /\ objects' = [h \in DOMAIN objects \ {hash_value} |-> objects[h]]
    /\ UNCHANGED <<ofsdir, ws, index, commits, head, mainref, cache, call>>

(* The command line on a workspace where each file has its own contents    *)
(* (path p holds the bytes p), with blob files that can go missing.        *)
NextDamage ==
    \/ CmdInit(TRUE)
    \/ \E paths \in Orderings(Paths) \ {<<>>} : CmdAdd(paths, TRUE)
    \/ \E msg_len \in {2, 3} : CmdCommit(msg_len, MaxCommits, TRUE)
    \/ Checkouts(MaxCommits, TRUE)
    \/ \E path \in Paths : UserWrite(path, path)
    \/ \E path \in Paths : UserDelete(path)
    \/ \E hash_value \in Hashes : DeleteBlob(hash_value)

SpecDamage ==
    Init /\ [][NextDamage]_vars

\* Some blob of the tree of commit_id has no file.
TreeBlobMissing(commit_id) ==
    \E p \in DOMAIN ChainTree(commit_id, commits) :
        ~ exists(objects, ChainTree(commit_id, commits)[p])

\* C21: checkout fails and writes nothing when the id names no commit, when
\* a blob of the target tree is missing, or when the index has entries,
\* --force is absent and the answer is not y.
C21_CheckoutRefused ==
    \A commit_id \in CommitIds, mode \in CheckoutModes :
        \A remove_order \in Perms(FilesToRemove(Disk, commit_id)) :
            (\/ commit_id \notin DOMAIN commits
             \/ TreeBlobMissing(commit_id)
             \/ (~ mode[1] /\ index # <<>> /\ mode[2] # "y"))
            => LET plan == CheckoutPlan(Disk, cache, commit_id, mode[1], mode[2],
                                        remove_order)
               IN  plan.rc = 1 /\ plan.writes = <<>>

(* ------------------------------ ofs status ----------------------------- *)

\* working_tree/compare.py has_file_changed: a file that is gone counts as
\* changed, else the file's hash is compared.
has_file_changed(wsdir, file_path, expected_hash) ==
    IF file_path \notin DOMAIN wsdir THEN TRUE
    ELSE compute_file_hash(wsdir, file_path) # expected_hash

\* status/execute.py execute: every index entry is listed as staged; a
\* staged file that exists and has changed is modified; a workspace file
\* with no index entry is untracked.
status(d) ==
    IF ~ is_initialized(d)
    THEN [rc |-> 1, staged |-> {}, modified |-> {}, untracked |-> {}]
    ELSE [rc |-> 0,
          staged |-> PathsOf(d.index),
          modified |-> {d.index[i].path : i \in
                          {j \in DOMAIN d.index :
                              /\ d.index[j].path \in DOMAIN d.ws
                              /\ has_file_changed(d.ws, d.index[j].path,
                                                  d.index[j].hash)}},
          untracked |-> DOMAIN d.ws \ PathsOf(d.index)]

\* C22: after a successful checkout from a workspace that held only tracked
\* files, status lists nothing as staged, modified or untracked, and HEAD
\* is detached at the id.
C22_CleanAfterCheckout ==
    [][\A commit_id \in CommitIds, mode \in CheckoutModes :
         \A remove_order \in Perms(FilesToRemove(Disk, commit_id)) :
            (/\ CheckoutPlan(Disk, cache, commit_id, mode[1], mode[2],
                             remove_order).rc = 0
             /\ DOMAIN ws \subseteq
                   PathsOf(index)
                   \cup DOMAIN ChainTree(resolve_head(head, mainref), commits)
             /\ CmdCheckout(commit_id, mode[1], mode[2], remove_order, TRUE))
            => /\ status(Disk').rc = 0
               /\ status(Disk').staged = {}
               /\ status(Disk').modified = {}
               /\ status(Disk').untracked = {}
               /\ head' = HeadDetached(commit_id)]_vars

(* --------------------- C23, C24: HEAD and ref files -------------------- *)

(* The files HEAD, refs/heads/main and refs/heads/dev as texts.  A text is *)
(* a sequence of tokens: the prefix "ref: ", a path, a commit id (a        *)
(* string of digits) or whitespace "\n".  A file is [exists, text].        *)
White ==
    "\n"

RefPrefix ==
    "ref: "

RefFiles ==
    {"refs/heads/main", "refs/heads/dev"}

RefIds ==
    {"001", "002"}

NoFile ==
    [exists |-> FALSE, text |-> <<>>]

File(text) ==
    [exists |-> TRUE, text |-> text]

\* str.strip()
RECURSIVE lstrip(_)
lstrip(text) ==
    IF text # <<>> /\ Head(text) = White THEN lstrip(Tail(text)) ELSE text

strip(text) ==
    Reverse(lstrip(Reverse(lstrip(text))))

\* Texts with and without whitespace around a body.
Padded(body) ==
    {body, <<White>> \o body, body \o <<White>>, <<White>> \o body \o <<White>>}

HeadTexts ==
    UNION {Padded(body) :
             body \in {<<>>} \cup {<<RefPrefix, f>> : f \in RefFiles}
                      \cup {<<id>> : id \in RefIds}}

BranchTexts ==
    {<<>>, <<White>>} \cup UNION {{<<id>>, <<id, White>>} : id \in RefIds}

\* "absent" (Python None) is the empty text.
\* read_head without the strip().
read_head_nostrip(files) ==
    IF ~ files["HEAD"].exists THEN <<>>
    ELSE files["HEAD"].text

\* read_head: None when HEAD is missing or strips to nothing.
read_head(files) ==
    IF ~ files["HEAD"].exists THEN <<>>
    ELSE strip(files["HEAD"].text)

\* head_content.startswith("ref: ")
startswith_ref(content) ==
    content # <<>> /\ Head(content) = RefPrefix

\* resolve_head, on the files.
resolve_head_text(files) ==
    LET head_content == read_head(files)
    IN  IF head_content = <<>> THEN <<>>
        ELSE IF startswith_ref(head_content)
        THEN LET ref_file == Tail(head_content)[1]
             IN  IF ~ files[ref_file].exists THEN <<>>
                 ELSE strip(files[ref_file].text)
        ELSE head_content

\* is_detached_head, on the files.
is_detached_head_text(files) ==
    LET head_content == read_head(files)
    IN  IF head_content = <<>> THEN FALSE
        ELSE ~ startswith_ref(head_content)

\* update_ref: the stripped value and a newline replace the file.
update_ref(files, ref_path, value) ==
    [files EXCEPT ![ref_path] = File(strip(value) \o <<White>>)]

\* update_head, on the files.
update_head_text(files, commit_id, detached) ==
    IF detached THEN update_ref(files, "HEAD", <<commit_id>>)
    ELSE LET head_content == IF ~ files["HEAD"].exists
                             THEN <<RefPrefix, "refs/heads/main">>
                             ELSE strip(files["HEAD"].text)
         IN  IF startswith_ref(head_content)
             THEN update_ref(files, Tail(head_content)[1], <<commit_id>>)
             ELSE update_ref(files, "HEAD", <<commit_id>>)

InitRefs ==
    /\ ofsdir = TRUE
    /\ ws = EmptyDir
    /\ objects = EmptyDir
    /\ index = <<>>
    /\ commits = EmptyDir
    /\ head = HeadSymbolic
    /\ mainref = 0
    /\ cache = <<>>
    /\ \E h \in {NoFile} \cup {File(t) : t \in HeadTexts},
          m \in {NoFile} \cup {File(t) : t \in BranchTexts},
          d \in {NoFile} \cup {File(t) : t \in BranchTexts} :
          call = [op |-> "files",
                  files |-> [f \in {"HEAD"} \cup RefFiles |->
                               IF f = "HEAD" THEN h
                               ELSE IF f = "refs/heads/main" THEN m ELSE d],
                  before |-> <<>>, commit_id |-> "", detached |-> FALSE,
                  resolved |-> <<>>, is_detached |-> FALSE]

\* resolve_head and is_detached_head on the files as they are.
ReadHeadCall ==
    /\ call.op # "read"
    /\ call' = [call EXCEPT !.op = "read",
                            !.resolved = resolve_head_text(call.files),
                            !.is_detached = is_detached_head_text(call.files)]
    /\ UNCHANGED <<ofsdir, ws, objects, index, commits, head, mainref, cache>>

\* update_head(ofs_dir, commit_id, detached), first on the initial files.
UpdateHeadCall(commit_id, detached) ==
    /\ call.op = "files"
    /\ call' = [call EXCEPT !.op = "update_head",
                            !.before = call.files,
                            !.commit_id = commit_id,
                            !.detached = detached,
                            !.files = update_head_text(call.files, commit_id, detached)]
    /\ UNCHANGED <<ofsdir, ws, objects, index, commits, head, mainref, cache>>

NextRefs ==
    \/ ReadHeadCall
    \/ \E commit_id \in RefIds, detached \in BOOLEAN :
          UpdateHeadCall(commit_id, detached)

SpecRefs ==
    InitRefs /\ [][NextRefs]_vars

\* C23: update_head(id, detached=false) leaves is_detached_head as it was;
\* on a symbolic HEAD it writes the id to the referenced branch file and
\* nothing else.
C23_UpdateHeadKeepsMode ==
    (call.op = "update_head" /\ ~ call.detached) =>
        /\ is_detached_head_text(call.files) = is_detached_head_text(call.before)
        /\ (call.before["HEAD"].exists
              /\ startswith_ref(strip(call.before["HEAD"].text)) =>
                 LET ref_file == strip(call.before["HEAD"].text)[2]
                 IN  /\ call.files["HEAD"] = call.before["HEAD"]
                     /\ strip(call.files[ref_file].text) = <<call.commit_id>>
                     /\ \A f \in RefFiles \ {ref_file} :
                           call.files[f] = call.before[f])

Dot ==
    "."

TmpSuffix ==
    <<Dot, "tmp">>

\* str.rfind(ch): the last position of ch, 0 when there is none.
rfind(name, ch) ==
    IF \E i \in DOMAIN name : name[i] = ch
    THEN CHOOSE i \in DOMAIN name :
            name[i] = ch /\ \A j \in DOMAIN name : name[j] = ch => j <= i
    ELSE 0

\* pathlib's PurePath.suffix: from the last dot on, unless that dot is the
\* first or the last character of the name.
suffix(name) ==
    LET i == rfind(name, Dot)
    IN  IF 1 < i /\ i < Len(name) THEN SubSeq(name, i, Len(name)) ELSE <<>>

\* str.startswith('.')
startswith_dot(name) ==
    name # <<>> /\ name[1] = Dot

\* hashlib's hexdigest of the digest h.
hexdigest(h) ==
    LET digit == <<"0", "1", "2", "3", "4", "5", "6", "7", "8", "9">>
    IN  <<digit[(h \div 10) + 1], digit[(h % 10) + 1]>>

PrefixNames ==
    {<<"1">>, <<Dot, "1">>}

ObjFileNames ==
    {<<"3">>, <<"5">>, <<Dot, "3">>, <<"3">> \o TmpSuffix}

\* What a directory entry under objects/<aa>/ can be: a readable file with
\* some bytes, a file whose read fails, a directory.
ObjFileStates ==
    {[is_dir |-> FALSE, readable |-> TRUE, content |-> b] : b \in 1..2}
    \cup {[is_dir |-> FALSE, readable |-> FALSE, content |-> 1],
          [is_dir |-> TRUE, readable |-> TRUE, content |-> 1]}

PrefixDir(entries) ==
    [is_dir |-> TRUE, entries |-> entries]

\* A plain file lying directly in objects/.
StrayFile ==
    [is_dir |-> FALSE, entries |-> EmptyDir]

ObjLeaves ==
    [prefix : PrefixNames, name : ObjFileNames, state : ObjFileStates]

\* objects/ holding the given leaves, at most one per path.
TreeOf(leaves) ==
    [prefix \in {l.prefix : l \in leaves} |->
        PrefixDir([name \in {l.name : l \in {k \in leaves : k.prefix = prefix}} |->
                     (CHOOSE l \in leaves : l.prefix = prefix /\ l.name = name).state])]

RECURSIVE LeafSetsUpTo(_)
LeafSetsUpTo(n) ==
    IF n = 0 THEN {{}}
    ELSE LeafSetsUpTo(n - 1)
         \cup UNION {{S \cup {l} :
                        l \in {k \in ObjLeaves :
                                 \A m \in S : m.prefix # k.prefix \/ m.name # k.name}} :
                     S \in LeafSetsUpTo(n - 1)}

ObjTrees ==
    {TreeOf(S) : S \in LeafSetsUpTo(MaxObjFiles)}
    \cup {[prefix \in {<<"1">>} |-> StrayFile]}

\* The tree the store writes for the blobs hs, each with the bytes that
\* hash to its name.
HealthyTree(hs) ==
    TreeOf({[prefix |-> <<hexdigest(h)[1]>>, name |-> <<hexdigest(h)[2]>>,
             state |-> [is_dir |-> FALSE, readable |-> TRUE,
                        content |-> (h - 11) \div 2]] : h \in hs})

\* ObjectStore.exists on the files: objects/h[0:2]/h[2:] exists.
exists_file(tree, h) ==
    LET prefix == <<hexdigest(h)[1]>>
        name == <<hexdigest(h)[2]>>
    IN  /\ prefix \in DOMAIN tree
        /\ tree[prefix].is_dir
        /\ name \in DOMAIN tree[prefix].entries

\* verify_objects: TRUE iff the error list stays empty.  ObjectStore's
\* constructor has made objects/ before the existence test.
verify_objects_tree(tree) ==
    \A prefix \in DOMAIN tree :
        \/ ~ tree[prefix].is_dir
        \/ startswith_dot(prefix)
        \/ \A name \in DOMAIN tree[prefix].entries :
              LET f == tree[prefix].entries[name]
              IN  \/ f.is_dir
                  \/ suffix(name) = TmpSuffix
                  \/ f.readable /\ hexdigest(compute_hash(f.content)) = prefix \o name

(* index.json and commits/*.json as verify reads them: a field an entry   *)
(* lacks reads as 0 (Python None).                                         *)

IndexFileEntries ==
    [hash : {0, 13, 15}, path : {0, 1}]

RECURSIVE ListsUpTo(_, _)
ListsUpTo(S, n) ==
    IF n = 0 THEN {<<>>}
    ELSE ListsUpTo(S, n - 1)
         \cup {Append(l, x) : l \in {k \in ListsUpTo(S, n - 1) : Len(k) = n - 1}, x \in S}

IndexFiles ==
    {[kind |-> k, entries |-> <<>>] : k \in {"missing", "badjson", "notlist"}}
    \cup {[kind |-> "list", entries |-> l] :
            l \in ListsUpTo(IndexFileEntries, MaxIndexEntries)}

CommitFileEntries ==
    [action : {"added", "deleted"}, hash : {0, 13, 15}, path : {1}]

CommitFiles ==
    {[parses |-> FALSE, commit |-> NoneCommit]}
    \cup {[parses |-> TRUE, commit |-> [id |-> 1, parent |-> 0, files |-> l]] :
            l \in ListsUpTo(CommitFileEntries, MaxFileEntries)}

NoCommitsDir ==
    [exists |-> FALSE, files |-> EmptyDir]

CommitsDir(files) ==
    [exists |-> TRUE, files |-> files]

\* What the second commit file can be: unparsable, without entries, or with
\* one added entry whose blob is missing.
SecondCommitFiles ==
    {[parses |-> FALSE, commit |-> NoneCommit],
     [parses |-> TRUE, commit |-> [id |-> 2, parent |-> 1, files |-> <<>>]],
     [parses |-> TRUE,
      commit |-> [id |-> 2, parent |-> 1,
                  files |-> <<[action |-> "added", hash |-> 15, path |-> 1]>>]]}

CommitDirs ==
    {NoCommitsDir}
    \cup UNION {{CommitsDir([id \in ids |-> IF id = "001" THEN a ELSE b]) :
                   a \in CommitFiles, b \in SecondCommitFiles} : ids \in SUBSET RefIds}

\* verify_index with the missing-hash test lost: such an entry is skipped.
verify_index_file_nohash(index_file, tree) ==
    IF index_file.kind = "missing" THEN TRUE
    ELSE IF index_file.kind \in {"badjson", "notlist"} THEN FALSE
    ELSE \A i \in DOMAIN index_file.entries :
            LET entry == index_file.entries[i]
            IN  \/ entry.hash = 0
                \/ entry.path # 0 /\ exists_file(tree, entry.hash)

\* verify_index
verify_index_file(index_file, tree) ==
    IF index_file.kind = "missing" THEN TRUE
    ELSE IF index_file.kind \in {"badjson", "notlist"} THEN FALSE
    ELSE \A i \in DOMAIN index_file.entries :
            LET entry == index_file.entries[i]
            IN  entry.hash # 0 /\ entry.path # 0 /\ exists_file(tree, entry.hash)

\* verify_commits
verify_commits_files(cdir, tree) ==
    IF ~ cdir.exists THEN TRUE
    ELSE IF DOMAIN cdir.files = {} THEN TRUE
    ELSE IF \E id \in DOMAIN cdir.files : ~ cdir.files[id].parses THEN FALSE
    ELSE \A id \in DOMAIN cdir.files :
            \A i \in DOMAIN cdir.files[id].commit.files :
                LET file_entry == cdir.files[id].commit.files[i]
                IN  \/ file_entry.action = "deleted"
                    \/ file_entry.hash # 0 /\ exists_file(tree, file_entry.hash)

\* What _load_commit_from_disk finds: a file that does not parse loads as
\* None, as a missing one does.
Loadable(cdir) ==
    [id \in {i \in DOMAIN cdir.files : cdir.files[i].parses} |->
        cdir.files[id].commit]

\* verify_refs
verify_refs_files(files, cdir, c) ==
    IF ~ files["HEAD"].exists THEN [ok |-> FALSE, cache |-> c]
    ELSE IF read_head(files) = <<>> THEN [ok |-> TRUE, cache |-> c]
    ELSE LET commit_id == resolve_head_text(files)
         IN  IF commit_id = <<>> THEN [ok |-> TRUE, cache |-> c]
             ELSE LET loaded == load_commit(commit_id[1], Loadable(cdir), c)
                  IN  [ok |-> loaded.val # NoneCommit, cache |-> loaded.cache]

\* Repository.is_initialized, on the files.
is_initialized_files(repo) ==
    repo.ofs_dir /\ repo.files["HEAD"].exists /\ repo.config

\* verify_repository: "error" when the repository is not initialized, else
\* the four results and their conjunction.
verify_repository_files(repo, c) ==
    IF ~ is_initialized_files(repo)
    THEN [error |-> TRUE, success |-> FALSE, objects |-> FALSE, index |-> FALSE,
          commits |-> FALSE, refs |-> FALSE, cache |-> c]
    ELSE LET refs == verify_refs_files(repo.files, repo.commits, c)
             objs == verify_objects_tree(repo.objects)
             idx == verify_index_file(repo.index, repo.objects)
             cms == verify_commits_files(repo.commits, repo.objects)
         IN  [error |-> FALSE, success |-> objs /\ idx /\ cms /\ refs.ok,
              objects |-> objs, index |-> idx, commits |-> cms,
              refs |-> refs.ok, cache |-> refs.cache]

\* HEAD and the branch files init writes.
FreshRefs ==
    [f \in {"HEAD"} \cup RefFiles |->
        IF f = "HEAD" THEN File(<<RefPrefix, "refs/heads/main", White>>) ELSE NoFile]

NoResult ==
    [error |-> FALSE, success |-> FALSE, objects |-> FALSE, index |-> FALSE,
     commits |-> FALSE, refs |-> FALSE]

\* A repository whose files were damaged behind the program's back:
\* anything under objects/ beside a sound index and no commits; any
\* index.json and commits/*.json beside a store of zero or one blob; any
\* index.json in a repository that lost its config.json.
DamagedRepos ==
    {[ofs_dir |-> TRUE, config |-> TRUE, objects |-> tree,
      index |-> [kind |-> "list", entries |-> <<>>],
      commits |-> NoCommitsDir, files |-> FreshRefs] : tree \in ObjTrees}
    \cup {[ofs_dir |-> TRUE, config |-> TRUE, objects |-> HealthyTree(hs),
           index |-> index_file, commits |-> cdir, files |-> FreshRefs] :
            hs \in {{}, {13}}, index_file \in IndexFiles, cdir \in CommitDirs}
    \cup {[ofs_dir |-> TRUE, config |-> FALSE, objects |-> HealthyTree({}),
           index |-> index_file, commits |-> NoCommitsDir, files |-> FreshRefs] :
            index_file \in IndexFiles}

InitVerify ==
    /\ ofsdir = TRUE
    /\ ws = EmptyDir
    /\ objects = EmptyDir
    /\ index = <<>>
    /\ commits = EmptyDir
    /\ head = HeadSymbolic
    /\ mainref = 0
    /\ cache = <<>>
    /\ \E repo \in DamagedRepos :
          call = [op |-> "repo", repo |-> repo, result |-> NoResult]

\* ofs verify: the four checks called one by one, and verify_repository.
VerifyCall ==
    LET r == verify_repository_files(call.repo, cache)
    IN  /\ call.op = "repo"
        /\ call' = [call EXCEPT
                      !.op = "verified",
                      !.result = [error |-> r.error, success |-> r.success,
                                  objects |-> verify_objects_tree(call.repo.objects),
                                  index |-> verify_index_file(call.repo.index,
                                                              call.repo.objects),
                                  commits |-> verify_commits_files(call.repo.commits,
                                                                   call.repo.objects),
                                  refs |-> verify_refs_files(call.repo.files,
                                                             call.repo.commits,
                                                             cache).ok]]
        /\ cache' = r.cache
        /\ UNCHANGED <<ofsdir, ws, objects, index, commits, head, mainref>>

NextVerify ==
    VerifyCall

SpecVerify ==
    InitVerify /\ [][NextVerify]_vars

\* A file of the store that does not hold the bytes its path names: not a
\* dot file, not under a dot directory, not a .tmp file, and unreadable or
\* with bytes whose digest is not <aa> followed by the file name.
BadBlob(tree) ==
    \E prefix \in DOMAIN tree :
        /\ tree[prefix].is_dir
        /\ ~ startswith_dot(prefix)
        /\ \E name \in DOMAIN tree[prefix].entries :
              LET f == tree[prefix].entries[name]
              IN  /\ ~ f.is_dir
                  /\ ~ startswith_dot(name)
                  /\ suffix(name) # TmpSuffix
                  /\ \/ ~ f.readable
                     \/ hexdigest(compute_hash(f.content)) # prefix \o name

\* C25: verify_objects fails exactly when the store holds a bad blob, and
\* verify_repository succeeds iff the four axes all pass.
C25_VerifyObjects ==
    call.op = "verified" =>
        /\ call.result.objects = ~ BadBlob(call.repo.objects)
        /\ (~ call.result.error =>
               call.result.success = (/\ call.result.objects
                                      /\ call.result.index
                                      /\ call.result.commits
                                      /\ call.result.refs))

\* An index entry that lacks its hash or its path, or names no blob file.
IndexDangles(repo) ==
    /\ repo.index.kind = "list"
    /\ \E i \in DOMAIN repo.index.entries :
          \/ repo.index.entries[i].hash = 0
          \/ repo.index.entries[i].path = 0
          \/ ~ exists_file(repo.objects, repo.index.entries[i].hash)

\* A commit file that does not parse, or a file entry that is no deletion
\* and lacks its hash or names no blob file.
CommitsDangle(repo) ==
    /\ repo.commits.exists
    /\ \E id \in DOMAIN repo.commits.files :
          \/ ~ repo.commits.files[id].parses
          \/ \E i \in DOMAIN repo.commits.files[id].commit.files :
                LET file_entry == repo.commits.files[id].commit.files[i]
                IN  /\ file_entry.action # "deleted"
                    /\ \/ file_entry.hash = 0
                       \/ ~ exists_file(repo.objects, file_entry.hash)

\* C26: a dangling index entry fails the index axis, an unparsable commit
\* file or a dangling entry that is no deletion fails the commits axis, and
\* nothing else does: deleted entries never fail it.  Either failure fails
\* verify as a whole.
C26_DanglingFails ==
    call.op = "verified" =>
        /\ IndexDangles(call.repo) => ~ call.result.index
        /\ call.result.commits = ~ CommitsDangle(call.repo)
        /\ IndexDangles(call.repo) \/ CommitsDangle(call.repo) =>
              ~ call.result.success

\* C26 witness: verify ran on an index with an entry that lacks its hash,
\* beside a commit whose only dangling entry is a deletion.
C26_Witness ==
    /\ call.op = "verified"
    /\ \E i \in DOMAIN call.repo.index.entries : call.repo.index.entries[i].hash = 0
    /\ ~ call.result.index
    /\ call.repo.commits.exists
    /\ \E id \in DOMAIN call.repo.commits.files :
          /\ call.repo.commits.files[id].parses
          /\ \E i \in DOMAIN call.repo.commits.files[id].commit.files :
                LET file_entry == call.repo.commits.files[id].commit.files[i]
                IN  /\ file_entry.action = "deleted"
                    /\ ~ exists_file(call.repo.objects, file_entry.hash)
    /\ call.result.commits

(* ----------------- verify_refs inside one process ---------------------- *)

RefsCommitDirs ==
    {NoCommitsDir}
    \cup UNION {{CommitsDir([id \in ids |->
                               IF (IF id = "001" THEN a ELSE b)
                               THEN [parses |-> TRUE,
                                     commit |-> [id |-> 1, parent |-> 0, files |-> <<>>]]
                               ELSE [parses |-> FALSE, commit |-> NoneCommit]]) :
                   a \in BOOLEAN, b \in BOOLEAN} : ids \in SUBSET RefIds}

InitVerifyRefs ==
    /\ ofsdir = TRUE
    /\ ws = EmptyDir
    /\ objects = EmptyDir
    /\ index = <<>>
    /\ commits = EmptyDir
    /\ head = HeadSymbolic
    /\ mainref = 0
    /\ cache = <<>>
    /\ \E h \in {NoFile} \cup {File(t) : t \in HeadTexts},
          m \in {NoFile} \cup {File(t) : t \in BranchTexts},
          cdir \in RefsCommitDirs :
          call = [op |-> "repo",
                  repo |-> [ofs_dir |-> TRUE, config |-> TRUE,
                            objects |-> HealthyTree({}),
                            index |-> [kind |-> "list", entries |-> <<>>],
                            commits |-> cdir,
                            files |-> [f \in {"HEAD"} \cup RefFiles |->
                                         IF f = "HEAD" THEN h
                                         ELSE IF f = "refs/heads/main" THEN m
                                         ELSE NoFile]],
                  result |-> NoResult]

\* load_commit(commit_id, commits_dir), called by any command of the process.
LoadCommitCall(commit_id) ==
    /\ call.op = "repo"
    /\ ~ CacheHas(cache, commit_id)
    /\ cache' = load_commit(commit_id, Loadable(call.repo.commits), cache).cache
    /\ UNCHANGED <<ofsdir, ws, objects, index, commits, head, mainref, call>>

\* save_commit(commit_obj, commits_dir): commits/ is made when it is
\* missing, and <id>.json is written.
SaveCommitCall(commit_id) ==
    /\ call.op = "repo"
    /\ commit_id \notin DOMAIN Loadable(call.repo.commits)
    /\ call' = [call EXCEPT
                  !.repo.commits =
                     CommitsDir([id \in DOMAIN call.repo.commits.files \cup {commit_id} |->
                                   IF id = commit_id
                                   THEN [parses |-> TRUE,
                                         commit |-> [id |-> 1, parent |-> 0,
                                                     files |-> <<>>]]
                                   ELSE call.repo.commits.files[id]])]
    /\ UNCHANGED <<ofsdir, ws, objects, index, commits, head, mainref, cache>>

NextVerifyRefs ==
    \/ \E commit_id \in RefIds : LoadCommitCall(commit_id)
    \/ \E commit_id \in RefIds : SaveCommitCall(commit_id)
    \/ VerifyCall

SpecVerifyRefs ==
    InitVerifyRefs /\ [][NextVerifyRefs]_vars

\* C27: verify_refs fails on a missing HEAD, passes on an empty HEAD and on
\* a symbolic HEAD whose branch file is missing or empty, and otherwise
\* passes iff commits/<id>.json of the id HEAD resolves to exists and parses.
C27_VerifyRefs ==
    call.op = "verified" =>
        LET files == call.repo.files
            head_text == strip(files["HEAD"].text)
        IN  IF ~ files["HEAD"].exists THEN ~ call.result.refs
            ELSE IF head_text = <<>> THEN call.result.refs
            ELSE IF startswith_ref(head_text)
            THEN IF ~ files[head_text[2]].exists
                    \/ strip(files[head_text[2]].text) = <<>>
                 THEN call.result.refs
                 ELSE call.result.refs =
                         (strip(files[head_text[2]].text)[1]
                             \in DOMAIN Loadable(call.repo.commits))
            ELSE call.result.refs =
                    (head_text[1] \in DOMAIN Loadable(call.repo.commits))

(* --------------------- writes, system call by system call -------------- *)

(* A path is a parent directory and a name; a directory maps the paths    *)
(* that exist to their bytes.  Path.write_bytes and Path.write_text open  *)
(* the file truncating it, write the bytes, which the kernel may take in  *)
(* several pieces, and close it; rename and replace are one step.          *)

\* PurePath.with_suffix
with_suffix(name, sfx) ==
    IF suffix(name) = <<>> THEN name \o sfx
    ELSE SubSeq(name, 1, Len(name) - Len(suffix(name))) \o sfx

PathOf(parent, name) ==
    [parent |-> parent, name |-> name]

\* The writers that go through a temporary file.
AtomicWriters ==
    {"atomic_write", "Index._save", "ObjectStore.store", "save_commit", "update_ref"}

Writers ==
    AtomicWriters \cup {"checkout"}

\* The paths each writer is called on.
Targets(writer) ==
    IF writer = "atomic_write"
    THEN {PathOf("root", <<"test", Dot, "txt">>), PathOf("root", <<"HEAD">>),
          PathOf("root", <<Dot, "config">>)}
    ELSE IF writer = "Index._save" THEN {PathOf(".ofs", <<"index", Dot, "json">>)}
    ELSE IF writer = "ObjectStore.store" THEN {PathOf(".ofs/objects/1", <<"3">>)}
    ELSE IF writer = "save_commit" THEN {PathOf(".ofs/commits", <<"001", Dot, "json">>)}
    ELSE IF writer = "update_ref"
    THEN {PathOf(".ofs", <<"HEAD">>), PathOf(".ofs/refs/heads", <<"main">>)}
    ELSE {PathOf("root", <<"a", Dot, "txt">>)}

\* A writer that opens the target itself.
temp_path_target(writer, target) ==
    target

\* The file each writer writes its bytes to.
temp_path(writer, target) ==
    IF writer \in {"atomic_write", "Index._save", "ObjectStore.store"}
    THEN PathOf(target.parent,
                with_suffix(target.name, suffix(target.name) \o TmpSuffix))
    ELSE IF writer = "save_commit"
    THEN PathOf(target.parent, with_suffix(target.name, TmpSuffix))
    ELSE IF writer = "update_ref"
    THEN PathOf(target.parent, target.name \o TmpSuffix)
    ELSE target

MkdirStep ==
    [kind |-> "mkdir", path |-> PathOf("", <<>>), to |-> PathOf("", <<>>)]

WriteStep(path) ==
    [kind |-> "write", path |-> path, to |-> path]

ReplaceStep(path, to) ==
    [kind |-> "replace", path |-> path, to |-> to]

\* The system calls of one call of the writer, in program order.
WritePlan(writer, target, dir) ==
    IF writer = "ObjectStore.store"
    THEN IF target \in DOMAIN dir THEN <<>>
         ELSE <<MkdirStep, MkdirStep, WriteStep(temp_path(writer, target)),
                ReplaceStep(temp_path(writer, target), target)>>
    ELSE IF writer = "checkout" THEN <<MkdirStep, WriteStep(target)>>
    ELSE <<MkdirStep, WriteStep(temp_path(writer, target)),
           ReplaceStep(temp_path(writer, target), target)>>

ContentBytes ==
    {"a", "b"}

Contents ==
    ListsUpTo(ContentBytes, MaxContentLen)

\* What a reader of the path gets.
Seen(dir, path) ==
    IF path \in DOMAIN dir THEN File(dir[path]) ELSE NoFile

InitWrite ==
    /\ ofsdir = TRUE
    /\ ws = EmptyDir
    /\ objects = EmptyDir
    /\ index = <<>>
    /\ commits = EmptyDir
    /\ head = HeadSymbolic
    /\ mainref = 0
    /\ cache = <<>>
    /\ \E writer \in Writers :
          \E target \in Targets(writer), content \in Contents,
             prior \in {NoFile} \cup {File(t) : t \in Contents},
             leftover \in {NoFile, File(<<"b">>)} :
             LET temp == temp_path(writer, target)
                 dir == [q \in (IF prior.exists THEN {target} ELSE {})
                                 \cup (IF leftover.exists /\ temp # target
                                       THEN {temp} ELSE {}) |->
                           IF q = target THEN prior.text ELSE leftover.text]
             IN  call = [op |-> writer, target |-> target, content |-> content,
                         prior |-> prior, dir |-> dir,
                         plan |-> WritePlan(writer, target, dir),
                         pc |-> 1, opened |-> FALSE, raised |-> FALSE]

Running ==
    ~ call.raised /\ call.pc <= Len(call.plan)

\* mkdir(parents=True, exist_ok=True)
StepMkdir ==
    /\ Running
    /\ call.plan[call.pc].kind = "mkdir"
    /\ call' = [call EXCEPT !.pc = call.pc + 1]
    /\ UNCHANGED <<ofsdir, ws, objects, index, commits, head, mainref, cache>>

\* open(path, 'wb'): the file exists and is empty.
StepOpen ==
    /\ Running
    /\ call.plan[call.pc].kind = "write"
    /\ ~ call.opened
    /\ LET path == call.plan[call.pc].path
       IN  call' = [call EXCEPT
                      !.opened = TRUE,
                      !.dir = [q \in DOMAIN call.dir \cup {path} |->
                                 IF q = path THEN <<>> ELSE call.dir[q]]]
    /\ UNCHANGED <<ofsdir, ws, objects, index, commits, head, mainref, cache>>

\* write(): the next byte reaches the file.
StepWrite ==
    /\ Running
    /\ call.plan[call.pc].kind = "write"
    /\ call.opened
    /\ LET path == call.plan[call.pc].path
       IN  /\ Len(call.dir[path]) < Len(call.content)
           /\ call' = [call EXCEPT
                         !.dir[path] = Append(call.dir[path],
                                              call.content[Len(call.dir[path]) + 1])]
    /\ UNCHANGED <<ofsdir, ws, objects, index, commits, head, mainref, cache>>

\* close(), all bytes written.
StepClose ==
    /\ Running
    /\ call.plan[call.pc].kind = "write"
    /\ call.opened
    /\ call.dir[call.plan[call.pc].path] = call.content
    /\ call' = [call EXCEPT !.opened = FALSE, !.pc = call.pc + 1]
    /\ UNCHANGED <<ofsdir, ws, objects, index, commits, head, mainref, cache>>

\* Path.replace / Path.rename onto the target: one step.
StepReplace ==
    /\ Running
    /\ call.plan[call.pc].kind = "replace"
    /\ LET path == call.plan[call.pc].path
           to == call.plan[call.pc].to
       IN  call' = [call EXCEPT
                      !.pc = call.pc + 1,
                      !.dir = [q \in (DOMAIN call.dir \cup {to}) \ {path} |->
                                 IF q = to THEN call.dir[path] ELSE call.dir[q]]]
    /\ UNCHANGED <<ofsdir, ws, objects, index, commits, head, mainref, cache>>

\* The pending system call fails (disk full, permission denied): the
\* exception leaves the writer.
StepFail ==
    /\ Running
    /\ call' = [call EXCEPT !.raised = TRUE]
    /\ UNCHANGED <<ofsdir, ws, objects, index, commits, head, mainref, cache>>

NextWrite ==
    \/ StepMkdir
    \/ StepOpen
    \/ StepWrite
    \/ StepClose
    \/ StepReplace
    \/ StepFail

SpecWrite ==
    InitWrite /\ [][NextWrite]_vars

\* C28: at every step of a write through atomic_write, Index._save,
\* save_commit, update_ref or ObjectStore.store, the target reads as its
\* complete previous state or as the complete new contents; the bytes go to
\* a '.tmp' sibling of the target; a failure before the rename leaves the
\* target as it was; a write that returns has put the new contents.
C28_AtomicWrites ==
    call.op \in AtomicWriters =>
        /\ Seen(call.dir, call.target) \in {call.prior, File(call.content)}
        /\ \A i \in DOMAIN call.plan :
              call.plan[i].kind = "write" =>
                 /\ call.plan[i].path.parent = call.target.parent
                 /\ call.plan[i].path # call.target
                 /\ suffix(call.plan[i].path.name) = TmpSuffix
        /\ call.raised => Seen(call.dir, call.target) = call.prior
        /\ (~ call.raised /\ call.pc > Len(call.plan) /\ call.plan # <<>>) =>
              Seen(call.dir, call.target) = File(call.content)

\* C28 witness: save_commit is half-way through its bytes, over an existing
\* target with other contents.
C28_Witness ==
    /\ call.op = "save_commit"
    /\ call.opened
    /\ call.prior.exists
    /\ call.prior.text # call.content
    /\ Len(call.content) = 2
    /\ \E path \in DOMAIN call.dir : path # call.target /\ Len(call.dir[path]) = 1

\* C29: while checkout restores a workspace file, the file reads as its
\* complete previous state or as the complete blob.
C29_CheckoutAtomic ==
    call.op = "checkout" =>
        Seen(call.dir, call.target) \in {call.prior, File(call.content)}

(* ------------------- Repository.initialize, on the files --------------- *)

(* What lies under a root: the set of directories that exist and the      *)
(* files that exist, with their text.                                      *)

NoLayout ==
    [dirs |-> {}, files |-> EmptyDir]

HeadFileText ==
    <<RefPrefix, "refs/heads/main", White>>

\* The six steps of initialize, in program order.
InitSteps ==
    <<[kind |-> "mkdir", path |-> ".ofs/commits", made |-> {".ofs", ".ofs/commits"},
       text |-> <<>>],
      [kind |-> "mkdir", path |-> ".ofs/refs/heads",
       made |-> {".ofs", ".ofs/refs", ".ofs/refs/heads"}, text |-> <<>>],
      [kind |-> "mkdir", path |-> ".ofs/objects", made |-> {".ofs", ".ofs/objects"},
       text |-> <<>>],
      [kind |-> "write", path |-> ".ofs/HEAD", made |-> {}, text |-> HeadFileText],
      [kind |-> "write", path |-> ".ofs/index.json", made |-> {}, text |-> <<"[]">>],
      [kind |-> "write", path |-> ".ofs/config.json", made |-> {},
       text |-> <<"config">>]>>

\* The layout a complete initialize leaves on an empty root.
CompleteLayout ==
    [dirs |-> {".ofs", ".ofs/commits", ".ofs/refs", ".ofs/refs/heads", ".ofs/objects"},
     files |-> [f \in {".ofs/HEAD", ".ofs/index.json", ".ofs/config.json"} |->
                  IF f = ".ofs/HEAD" THEN HeadFileText
                  ELSE IF f = ".ofs/index.json" THEN <<"[]">> ELSE <<"config">>]]

\* Repository.is_initialized
is_initialized_layout(layout) ==
    /\ ".ofs" \in layout.dirs
    /\ ".ofs/HEAD" \in DOMAIN layout.files
    /\ ".ofs/config.json" \in DOMAIN layout.files

\* shutil.rmtree(self.ofs_dir)
rmtree(layout) ==
    NoLayout

\* Path.mkdir(parents=True) and Path.write_text
DoStep(layout, step) ==
    IF step.kind = "mkdir"
    THEN [layout EXCEPT !.dirs = layout.dirs \cup step.made]
    ELSE [layout EXCEPT !.files = [f \in DOMAIN layout.files \cup {step.path} |->
                                     IF f = step.path THEN step.text
                                     ELSE layout.files[f]]]

\* The except branch: the message, the cleanup, False.
Cleanup(layout) ==
    [ret |-> FALSE, layout |-> IF ".ofs" \in layout.dirs THEN rmtree(layout) ELSE layout]

\* The try block from step i on; the step numbered fail_at raises OSError,
\* and mkdir raises FileExistsError on a directory that exists.
RECURSIVE RunInit(_, _, _)
RunInit(layout, i, fail_at) ==
    IF i > Len(InitSteps) THEN [ret |-> TRUE, layout |-> layout]
    ELSE IF i = fail_at THEN Cleanup(layout)
    ELSE IF InitSteps[i].kind = "mkdir" /\ InitSteps[i].path \in layout.dirs
    THEN Cleanup(layout)
    ELSE RunInit(DoStep(layout, InitSteps[i]), i + 1, fail_at)

\* Repository.initialize
initialize(layout, fail_at) ==
    IF is_initialized_layout(layout) THEN [ret |-> FALSE, layout |-> layout]
    ELSE RunInit(layout, 1, fail_at)

\* The states an existing .ofs can be in: any of its directories, HEAD,
\* index.json and config.json present or not, a commit file when commits/
\* exists.
ExistingLayouts ==
    {[dirs |-> {".ofs"} \cup ds,
      files |-> [f \in fs |->
                   IF f = ".ofs/HEAD" THEN h
                   ELSE IF f = ".ofs/index.json" THEN <<"[]">>
                   ELSE IF f = ".ofs/config.json" THEN <<"config">>
                   ELSE <<"commit">>]] :
        ds \in {d \in SUBSET {".ofs/commits", ".ofs/refs", ".ofs/refs/heads", ".ofs/objects"} :
                  ".ofs/refs/heads" \in d => ".ofs/refs" \in d},
        fs \in SUBSET {".ofs/HEAD", ".ofs/index.json", ".ofs/config.json",
                       ".ofs/commits/001.json"},
        h \in {HeadFileText, <<"001", White>>}}

InitInit ==
    /\ ofsdir = TRUE
    /\ ws = EmptyDir
    /\ objects = EmptyDir
    /\ index = <<>>
    /\ commits = EmptyDir
    /\ head = HeadSymbolic
    /\ mainref = 0
    /\ cache = <<>>
    /\ \E layout \in {NoLayout}
                     \cup {l \in ExistingLayouts :
                             ".ofs/commits/001.json" \in DOMAIN l.files
                                => ".ofs/commits" \in l.dirs} :
          call = [op |-> "root", layout |-> layout, before |-> layout,
                  fail_at |-> 0, ret |-> FALSE]

\* ofs init; fail_at = 0 when no system call is made to fail.
InitializeCall(fail_at) ==
    LET r == initialize(call.layout, fail_at)
    IN  /\ call.op = "root"
        /\ call' = [call EXCEPT !.op = "initialize", !.layout = r.layout,
                                !.fail_at = fail_at, !.ret = r.ret]
        /\ UNCHANGED <<ofsdir, ws, objects, index, commits, head, mainref, cache>>

NextInit ==
    \E fail_at \in 0..Len(InitSteps) : InitializeCall(fail_at)

SpecInit ==
    InitInit /\ [][NextInit]_vars

\* C30: initialize on a root whose .ofs exists, in whatever state, fails
\* and changes nothing under it; on a root without .ofs it either returns
\* True with the complete layout or returns False with no .ofs left.
C30_InitAllOrNothing ==
    call.op = "initialize" =>
        IF ".ofs" \in call.before.dirs
        THEN ~ call.ret /\ call.layout = call.before
        ELSE \/ call.ret /\ call.layout = CompleteLayout
             \/ ~ call.ret /\ ".ofs" \notin call.layout.dirs

(* ---------------------- ofs add, file by file --------------------------- *)

(* What can happen to a path given to add: it is staged ("ok"), it does   *)
(* not exist or is ignored (it never enters files_to_add), it is over the *)
(* size limit, it lies outside the repository, the blob write fails, or   *)
(* the save of index.json fails.                                           *)
Fates ==
    {"ok", "ignored", "large", "outside", "store_fails", "save_fails"}

\* The loop of add from the file at the head of files_to_add on.  mem is
\* the Index object's list, disk the contents of index.json.
RECURSIVE StageLoop(_, _, _, _, _, _, _)
StageLoop(files_to_add, fate, wsdir, objs, mem, disk, staged_count) ==
    IF files_to_add = <<>>
    THEN [objects |-> objs, index |-> disk, staged_count |-> staged_count]
    ELSE LET file_path == Head(files_to_add)
             rest == Tail(files_to_add)
             content == wsdir[file_path]
             file_hash == compute_file_hash(wsdir, file_path)
             st == store(objs, content)
             added == IndexAdd(mem, file_path, file_hash)
         IN  IF fate[file_path] = "large"
             THEN StageLoop(rest, fate, wsdir, objs, mem, disk, staged_count)
             ELSE IF fate[file_path] = "store_fails" /\ st.wrote
             THEN StageLoop(rest, fate, wsdir, objs, mem, disk, staged_count)
             ELSE IF fate[file_path] = "outside"
             THEN StageLoop(rest, fate, wsdir, st.objects, mem, disk, staged_count)
             ELSE IF fate[file_path] = "save_fails"
             THEN StageLoop(rest, fate, wsdir, st.objects, added, disk, staged_count)
             ELSE StageLoop(rest, fate, wsdir, st.objects, added, added,
                            staged_count + 1)

\* add that answers 0 whenever it found a file to add.
add_execute_found(d, paths, fate) ==
    IF ~ is_initialized(d)
    THEN [rc |-> 1, objects |-> d.objects, index |-> d.index, staged_count |-> 0]
    ELSE LET files_to_add == SelectSeq(paths, LAMBDA q : q \in DOMAIN d.ws
                                                          /\ fate[q] # "ignored")
             r == StageLoop(files_to_add, fate, d.ws, d.objects, d.index, d.index, 0)
         IN  IF files_to_add = <<>>
             THEN [rc |-> 1, objects |-> d.objects, index |-> d.index,
                   staged_count |-> 0]
             ELSE [rc |-> 0, objects |-> r.objects, index |-> r.index,
                   staged_count |-> r.staged_count]

\* add/execute.py execute, with the skips and the failures.
add_execute(d, paths, fate) ==
    IF ~ is_initialized(d)
    THEN [rc |-> 1, objects |-> d.objects, index |-> d.index, staged_count |-> 0]
    ELSE LET files_to_add == SelectSeq(paths, LAMBDA q : q \in DOMAIN d.ws
                                                          /\ fate[q] # "ignored")
             r == StageLoop(files_to_add, fate, d.ws, d.objects, d.index, d.index, 0)
         IN  IF files_to_add = <<>>
             THEN [rc |-> 1, objects |-> d.objects, index |-> d.index,
                   staged_count |-> 0]
             ELSE [rc |-> IF r.staged_count > 0 THEN 0 ELSE 1,
                   objects |-> r.objects, index |-> r.index,
                   staged_count |-> r.staged_count]

\* ofs add paths...
AddCall(paths, fate) ==
    LET r == add_execute(Disk, paths, fate)
    IN  /\ objects' = r.objects
        /\ index' = r.index
        /\ call' = [op |-> "add", rc |-> r.rc, paths |-> paths, fate |-> fate,
                    before |-> Disk]
        /\ UNCHANGED <<ofsdir, ws, commits, head, mainref, cache>>

\* The user writes or deletes a workspace file; the record of the last
\* command is dropped.
AddEdit ==
    /\ \E path \in Paths :
          \/ \E content \in UserBytes : ws' = (path :> content) @@ ws
          \/ path \in DOMAIN ws /\ ws' = [q \in DOMAIN ws \ {path} |-> ws[q]]
    /\ call' = NoCall
    /\ UNCHANGED <<ofsdir, objects, index, commits, head, mainref, cache>>

NextAdd ==
    \/ CmdInit(TRUE)
    \/ AddEdit
    \/ \E paths \in Orderings(Paths), fate \in [Paths -> Fates] : AddCall(paths, fate)

SpecAdd ==
    Init /\ [][NextAdd]_vars

\* A path of this invocation that gets staged: it exists, is not ignored,
\* skipped or outside, its blob is written or already there, and the save
\* of index.json succeeds.
StagedBy(d, paths, fate, path) ==
    /\ is_initialized(d)
    /\ path \in Range(paths)
    /\ path \in DOMAIN d.ws
    /\ \/ fate[path] = "ok"
       \/ /\ fate[path] = "store_fails"
          /\ \/ exists(d.objects, compute_hash(d.ws[path]))
             \/ \E i \in DOMAIN paths :
                   /\ paths[i] \in DOMAIN d.ws
                   /\ d.ws[paths[i]] = d.ws[path]
                   /\ fate[paths[i]] \in {"ok", "outside", "save_fails"}
                   /\ \E j \in DOMAIN paths : j > i /\ paths[j] = path

\* C31: add returns 0 iff this invocation staged at least one file, each
\* staged file then has its entry in index.json, and when add returns
\* non-zero index.json is as it was.
C31_AddReturn ==
    call.op = "add" =>
        /\ (call.rc = 0) =
              (\E path \in Paths : StagedBy(call.before, call.paths, call.fate, path))
        /\ \A path \in Paths :
              StagedBy(call.before, call.paths, call.fate, path) =>
                 /\ path \in PathsOf(index)
                 /\ EntryAt(index, path).hash = compute_hash(ws[path])
        /\ call.rc # 0 => index = call.before.index

\* C31 witness: add returned non-zero although it found a file to add, the
\* save of index.json having failed over a non-empty index.
C31_Witness ==
    /\ call.op = "add"
    /\ call.rc = 1
    /\ call.before.index # <<>>
    /\ \E path \in Range(call.paths) :
          /\ path \in DOMAIN ws
          /\ call.fate[path] = "save_fails"
          /\ path \notin PathsOf(call.before.index)

(* ------------------ load_commit and object identity -------------------- *)

(* Python objects are heap cells named by references.  A commit dict holds *)
(* its message by value and its files list by reference; the list holds    *)
(* references to the file-entry dicts.  dict(x) makes a new dict with the   *)
(* same references.                                                        *)

NoneRef ==
    [none |-> TRUE, message |-> "", files |-> 0]

\* The commit files on disk, by value.
AliasCommitDirs ==
    {[id \in ids |-> [message |-> "m",
                       files |-> IF id = 1 THEN <<[path |-> 1, hash |-> 13]>>
                                 ELSE two]] :
        ids \in SUBSET (1..2),
        two \in {<<>>, <<[path |-> 1, hash |-> 13], [path |-> 2, hash |-> 15]>>}}

\* json.loads of a commit file: a new list and new entry dicts.
json_loads(commit, lists, entries) ==
    LET list_ref == Cardinality(DOMAIN lists) + 1
        base == Cardinality(DOMAIN entries)
    IN  [val |-> [none |-> FALSE, message |-> commit.message, files |-> list_ref],
         lists |-> (list_ref :> [i \in DOMAIN commit.files |-> base + i]) @@ lists,
         entries |-> [r \in DOMAIN entries \cup {base + i : i \in DOMAIN commit.files} |->
                        IF r \in DOMAIN entries THEN entries[r]
                        ELSE commit.files[r - base]]]

\* dict(result) if result else None
dict_copy(val) ==
    IF val.none THEN NoneRef
    ELSE [none |-> FALSE, message |-> val.message, files |-> val.files]

\* load_commit on the heap: what is returned, the cache and the heap after.
load_commit_heap(commit_id, cdir, c, lists, entries) ==
    IF CacheHas(c, commit_id)
    THEN [returned |-> dict_copy(CacheGet(c, commit_id)), cache |-> c,
          lists |-> lists, entries |-> entries]
    ELSE IF commit_id \notin DOMAIN cdir
    THEN [returned |-> NoneRef, cache |-> CachePut(c, commit_id, NoneRef),
          lists |-> lists, entries |-> entries]
    ELSE LET loaded == json_loads(cdir[commit_id], lists, entries)
         IN  [returned |-> dict_copy(loaded.val),
              cache |-> CachePut(c, commit_id, loaded.val),
              lists |-> loaded.lists, entries |-> loaded.entries]

\* The value a reference stands for.
Deep(val, lists, entries) ==
    IF val.none THEN [none |-> TRUE, message |-> "", files |-> <<>>]
    ELSE [none |-> FALSE, message |-> val.message,
          files |-> [i \in DOMAIN lists[val.files] |-> entries[lists[val.files][i]]]]

InitAlias ==
    /\ ofsdir = TRUE
    /\ ws = EmptyDir
    /\ objects = EmptyDir
    /\ index = <<>>
    /\ commits = EmptyDir
    /\ head = HeadSymbolic
    /\ mainref = 0
    /\ cache = <<>>
    /\ \E cdir \in AliasCommitDirs :
          call = [op |-> "none", cdir |-> cdir, lists |-> <<>>, entries |-> <<>>,
                  returned |-> NoneRef, first |-> <<>>]

\* commit = load_commit(commit_id, commits_dir); first keeps the value of
\* the first load of each id.
LoadAliasCall(commit_id) ==
    LET r == load_commit_heap(commit_id, call.cdir, cache, call.lists, call.entries)
    IN  /\ cache' = r.cache
        /\ call' = [call EXCEPT
                      !.op = "load", !.returned = r.returned,
                      !.lists = r.lists, !.entries = r.entries,
                      !.first = IF commit_id \in DOMAIN call.first THEN call.first
                                ELSE (commit_id :> Deep(r.returned, r.lists, r.entries))
                                     @@ call.first]
        /\ UNCHANGED <<ofsdir, ws, objects, index, commits, head, mainref>>

\* commit["message"] = "x"
SetMessage ==
    /\ ~ call.returned.none
    /\ call' = [call EXCEPT !.op = "message", !.returned.message = "x"]
    /\ UNCHANGED <<ofsdir, ws, objects, index, commits, head, mainref, cache>>

\* commit["files"].append({...})
AppendFile ==
    /\ ~ call.returned.none
    /\ Len(call.lists[call.returned.files]) < MaxListLen
    /\ LET r == Cardinality(DOMAIN call.entries) + 1
       IN  call' = [call EXCEPT
                      !.op = "append",
                      !.entries = (r :> [path |-> 2, hash |-> 15]) @@ call.entries,
                      !.lists[call.returned.files] = Append(@, r)]
    /\ UNCHANGED <<ofsdir, ws, objects, index, commits, head, mainref, cache>>

\* commit["files"][i]["hash"] = ...
SetEntryHash(i) ==
    /\ ~ call.returned.none
    /\ i \in DOMAIN call.lists[call.returned.files]
    /\ call.entries[call.lists[call.returned.files][i]].hash # 17
    /\ call' = [call EXCEPT
                  !.op = "entry",
                  !.entries[call.lists[call.returned.files][i]].hash = 17]
    /\ UNCHANGED <<ofsdir, ws, objects, index, commits, head, mainref, cache>>

NextAlias ==
    \/ \E commit_id \in 1..2 : LoadAliasCall(commit_id)
    \/ SetMessage
    \/ AppendFile
    \/ \E i \in 1..MaxListLen : SetEntryHash(i)

SpecAlias ==
    InitAlias /\ [][NextAlias]_vars

\* C32: whatever the caller did to the commits it was handed, load_commit
\* of an id returns the value its first load returned.
C32_NoAliasing ==
    \A commit_id \in DOMAIN call.first :
        LET r == load_commit_heap(commit_id, call.cdir, cache, call.lists, call.entries)
        IN  Deep(r.returned, r.lists, r.entries) = call.first[commit_id]

(* --------------------- _CommitCache(max_size) -------------------------- *)

\* put that evicts the newest entry when full.
cache_put_newest(c, max_size, key, value) ==
    LET kept == IF Len(c) >= max_size THEN SubSeq(c, 1, Len(c) - 1) ELSE c
    IN  Append(kept, [key |-> key, val |-> value])

\* _CommitCache.put of a cache built with the given max_size: when full,
\* delete next(iter(self._store)), then store the key.
cache_put(c, max_size, key, value) ==
    LET kept == IF Len(c) >= max_size THEN Tail(c) ELSE c
    IN  IF CacheHas(kept, key)
        THEN [i \in DOMAIN kept |->
                IF kept[i].key = key THEN [key |-> key, val |-> value] ELSE kept[i]]
        ELSE Append(kept, [key |-> key, val |-> value])

\* load_commit over a cache of the given max_size.
load_commit_sized(commit_id, cdir, c, max_size) ==
    IF CacheHas(c, commit_id)
    THEN [val |-> CacheGet(c, commit_id), cache |-> c, found |-> TRUE]
    ELSE LET result == load_commit_from_disk(commit_id, cdir)
         IN  [val |-> result, cache |-> cache_put(c, max_size, commit_id, result),
              found |-> FALSE]

InitCache ==
    /\ ofsdir = TRUE
    /\ ws = EmptyDir
    /\ objects = EmptyDir
    /\ index = <<>>
    /\ head = HeadSymbolic
    /\ mainref = 0
    /\ cache = <<>>
    /\ \E ids \in SUBSET CommitIds :
          commits = [id \in ids |-> [id |-> id, parent |-> 0, files |-> <<>>]]
    /\ \E max_size \in 1..MaxCacheSize :
          call = [op |-> "none", max_size |-> max_size, history |-> <<>>]

\* load_commit(commit_id, commits_dir); history lists the keys in the order
\* they were inserted.
LoadSizedCall(commit_id) ==
    LET r == load_commit_sized(commit_id, commits, cache, call.max_size)
    IN  /\ Len(call.history) < MaxLoads
        /\ cache' = r.cache
        /\ call' = [call EXCEPT
                      !.op = IF r.found THEN "hit" ELSE "miss",
                      !.history = IF r.found THEN @ ELSE Append(@, commit_id)]
        /\ UNCHANGED <<ofsdir, ws, objects, index, commits, head, mainref>>

NextCache ==
    \E commit_id \in CommitIds : LoadSizedCall(commit_id)

SpecCache ==
    InitCache /\ [][NextCache]_vars

IdPool ==
    {1, 2, 10, 99, 100, 999, 1000}

RECURSIVE IdSetsUpTo(_)
IdSetsUpTo(n) ==
    IF n = 0 THEN {{}}
    ELSE IdSetsUpTo(n - 1) \cup
         UNION {{S \cup {x} : x \in IdPool \ S} : S \in IdSetsUpTo(n - 1)}

\* commits/*.json: each file parses to a commit or does not parse.
LogDirs ==
    UNION {[S -> BOOLEAN] : S \in IdSetsUpTo(MaxLogFiles)}

\* list_commits over the files: load what parses, sort by id descending.
list_commits_files(parses) ==
    LET good == {x \in DOMAIN parses : parses[x]}
    IN  ListDesc([x \in good |-> [id |-> x, parent |-> 0, files |-> <<>>]], good)

\* log: commits[:limit] when a positive limit is given.
log_shown(parses, limit) ==
    LET all == list_commits_files(parses)
    IN  IF limit > 0 /\ limit < Len(all) THEN SubSeq(all, 1, limit) ELSE all

InitLog ==
    /\ ofsdir = TRUE
    /\ ws = EmptyDir
    /\ objects = EmptyDir
    /\ index = <<>>
    /\ commits = EmptyDir
    /\ head = HeadSymbolic
    /\ mainref = 0
    /\ cache = <<>>
    /\ \E parses \in LogDirs :
          call = [op |-> "none", parses |-> parses, limit |-> 0, result |-> <<>>]

ListCommitsCall ==
    /\ call' = [call EXCEPT !.op = "list", !.limit = 0,
                            !.result = list_commits_files(call.parses)]
    /\ UNCHANGED <<ofsdir, ws, objects, index, commits, head, mainref, cache>>

LogCall(limit) ==
    /\ call' = [call EXCEPT !.op = "log", !.limit = limit,
                            !.result = log_shown(call.parses, limit)]
    /\ UNCHANGED <<ofsdir, ws, objects, index, commits, head, mainref, cache>>

NextLog ==
    \/ ListCommitsCall
    \/ \E limit \in 0..MaxLogFiles : LogCall(limit)

SpecLog ==
    InitLog /\ [][NextLog]_vars

\* The ids of a sequence of commits decrease strictly as numbers.
Decreasing(seq) ==
    \A i, j \in DOMAIN seq : i < j => seq[i].id > seq[j].id

\* C34: list_commits returns every parseable commit exactly once and none
\* of the others, by strictly decreasing commit number; log -n N shows the
\* first N of that order.
C34_NewestFirst ==
    LET good == {x \in DOMAIN call.parses : call.parses[x]}
    IN  /\ call.op = "list" =>
              /\ {call.result[i].id : i \in DOMAIN call.result} = good
              /\ Len(call.result) = Cardinality(good)
              /\ Decreasing(call.result)
        /\ call.op = "log" =>
              /\ Decreasing(call.result)
              /\ Len(call.result) =
                    IF call.limit > 0 /\ call.limit < Cardinality(good)
                    THEN call.limit ELSE Cardinality(good)
              /\ \A i \in DOMAIN call.result : \A x \in good :
                    x > call.result[i].id =>
                       \E j \in DOMAIN call.result : call.result[j].id = x

(* --------------------------- ignore patterns ---------------------------- *)

(* Patterns and paths are sequences of characters; "*" is the glob star,   *)
(* "!" the negation mark, "/" the separator.                               *)
Slash ==
    "/"

Bang ==
    "!"

Star ==
    "*"

IgnorePatterns ==
    { <<>>, <<"a">>, <<Bang, "a">>, <<Star>>, <<Bang, Star>>,
      <<"d", Slash>>, <<Bang, "d", Slash>>, <<"d", Slash, "a">>,
      <<Star, Star, Slash, "a">> }

IgnorePaths ==
    { <<"a">>, <<"b">>, <<"d">>, <<"d", Slash, "a">> }

\* re.compile(fnmatch.translate(pat)).match(str): the whole string matches.
RECURSIVE fnmatch(_, _)
fnmatch(pat, str) ==
    IF pat = <<>> THEN str = <<>>
    ELSE IF Head(pat) = Star
         THEN fnmatch(Tail(pat), str) \/ (str # <<>> /\ fnmatch(pat, Tail(str)))
    ELSE str # <<>> /\ Head(str) = Head(pat) /\ fnmatch(Tail(pat), Tail(str))

startswith(str, prefix) ==
    Len(str) >= Len(prefix) /\ SubSeq(str, 1, Len(prefix)) = prefix

\* Path.name: what follows the last separator.
path_name(path_str) ==
    LET k == rfind(path_str, Slash)
    IN  SubSeq(path_str, k + 1, Len(path_str))

\* One pattern compiled: negation mark and trailing separator taken off,
\* a leading "**/" taken off for the match on the name.
compile_pattern(pattern) ==
    LET is_negation == startswith(pattern, <<Bang>>)
        raw0 == IF is_negation THEN Tail(pattern) ELSE pattern
        is_dir_pattern == raw0 # <<>> /\ raw0[Len(raw0)] = Slash
        raw == IF is_dir_pattern THEN SubSeq(raw0, 1, Len(raw0) - 1) ELSE raw0
        match_raw == IF startswith(raw, <<Star, Star, Slash>>)
                     THEN SubSeq(raw, 4, Len(raw)) ELSE raw
    IN  [raw |-> raw, name_regex |-> match_raw, path_regex |-> raw,
         is_negation |-> is_negation, is_dir_pattern |-> is_dir_pattern]

\* compile_patterns: empty patterns are dropped.
RECURSIVE compile_patterns(_)
compile_patterns(patterns) ==
    IF patterns = <<>> THEN <<>>
    ELSE IF Head(patterns) = <<>> THEN compile_patterns(Tail(patterns))
    ELSE <<compile_pattern(Head(patterns))>> \o compile_patterns(Tail(patterns))

matches_compiled(name, path_str, c) ==
    \/ /\ c.is_dir_pattern
       /\ \/ startswith(path_str, Append(c.raw, Slash))
          \/ name = c.raw
          \/ path_str = c.raw
    \/ fnmatch(c.name_regex, name)
    \/ fnmatch(c.path_regex, path_str)

\* The loop of should_ignore_compiled.
RECURSIVE IgnoreLoop(_, _, _)
IgnoreLoop(path_str, compiled, ignored) ==
    IF compiled = <<>> THEN ignored
    ELSE LET c == Head(compiled)
             matched == matches_compiled(path_name(path_str), path_str, c)
         IN  IgnoreLoop(path_str, Tail(compiled),
                        IF matched THEN ~ c.is_negation ELSE ignored)

\* should_ignore_compiled without the order: some pattern ignores the path
\* and no negation matches it.
should_ignore_compiled_any(path_str, compiled) ==
    /\ \E i \in DOMAIN compiled :
          /\ ~ compiled[i].is_negation
          /\ matches_compiled(path_name(path_str), path_str, compiled[i])
    /\ \A i \in DOMAIN compiled :
          compiled[i].is_negation =>
             ~ matches_compiled(path_name(path_str), path_str, compiled[i])

should_ignore_compiled(path_str, compiled) ==
    IgnoreLoop(path_str, compiled, FALSE)

should_ignore(path_str, patterns) ==
    IF patterns = <<>> THEN FALSE
    ELSE should_ignore_compiled(path_str, compile_patterns(patterns))

InitIgnore ==
    /\ ofsdir = TRUE
    /\ ws = EmptyDir
    /\ objects = EmptyDir
    /\ index = <<>>
    /\ commits = EmptyDir
    /\ head = HeadSymbolic
    /\ mainref = 0
    /\ cache = <<>>
    /\ \E path \in IgnorePaths, patterns \in ListsUpTo(IgnorePatterns, MaxPatterns) :
          call = [op |-> "none", path |-> path, patterns |-> patterns,
                  result |-> FALSE]

ShouldIgnoreCall ==
    /\ call.op = "none"
    /\ call' = [call EXCEPT !.op = "should_ignore",
                            !.result = should_ignore(call.path, call.patterns)]
    /\ UNCHANGED <<ofsdir, ws, objects, index, commits, head, mainref, cache>>

NextIgnore ==
    ShouldIgnoreCall

SpecIgnore ==
    InitIgnore /\ [][NextIgnore]_vars

\* A pattern of the sequence matches the path.
PatternMatches(path_str, pattern) ==
    /\ pattern # <<>>
    /\ matches_compiled(path_name(path_str), path_str, compile_pattern(pattern))

Negated(pattern) ==
    pattern # <<>> /\ Head(pattern) = Bang

\* C35: should_ignore is the fold from false over the patterns in order:
\* the path is ignored exactly when the last pattern that matches it is not
\* a negation; so a negation put in front of the sequence changes nothing.
C35_IgnoreFold ==
    call.op = "should_ignore" =>
       /\ call.result =
             \E i \in DOMAIN call.patterns :
                /\ PatternMatches(call.path, call.patterns[i])
                /\ ~ Negated(call.patterns[i])
                /\ \A j \in DOMAIN call.patterns :
                      j > i => ~ PatternMatches(call.path, call.patterns[j])
       /\ \A n \in IgnorePatterns :
             Negated(n) =>
                should_ignore(call.path, <<n>> \o call.patterns) = call.result

\* C35 witness: a negation that matches comes before the pattern it negates
\* and the path is ignored.
C35_Witness ==
    /\ call.op = "should_ignore"
    /\ call.result
    /\ \E i, j \in DOMAIN call.patterns :
          /\ i < j
          /\ Negated(call.patterns[i])
          /\ call.patterns[i] = <<Bang>> \o call.patterns[j]
          /\ PatternMatches(call.path, call.patterns[i])

(* ---------------------- C36: the two tree builders ---------------------- *)

\* C36: for every commit on disk, the builder of commands/checkout (all
\* listed commits up to the target, in id order) and the builder of
\* core/commits/tree.py (the parent chain) give the same path-to-hash
\* mapping.
C36_BuildersAgree ==
    \A id \in DOMAIN commits :
        HashMap(checkout_build_tree_state(id, commits))
            = HashMap(build_tree_state(id, commits, cache).tree)

(* ------------------- C37: what a commit's tree holds -------------------- *)

\* The repository after one more command of a script.
AfterWrite(d, path, content) ==
    [d EXCEPT !.ws = (path :> content) @@ d.ws]

AfterAdd(d, paths) ==
    ApplyWrites(d, AddPlan(d, paths).writes)

AfterCommit(d) ==
    ApplyWrites(d, CommitPlan(d, <<>>, 3).writes)

AfterCheckout(d, commit_id) ==
    LET remove_order == CHOOSE o \in Perms(FilesToRemove(d, commit_id)) : TRUE
    IN  ApplyWrites(d, CheckoutPlan(d, <<>>, commit_id, TRUE, "n", remove_order).writes)

\* ofs init; write a; add a; commit; write b; add b; commit;
\* checkout 001 --force; write b; add b; commit.
ForkedRepo ==
    LET d0 == [ofsdir |-> TRUE, ws |-> EmptyDir, objects |-> EmptyDir,
               index |-> <<>>, commits |-> EmptyDir, head |-> HeadSymbolic,
               mainref |-> 0]
        d1 == AfterCommit(AfterAdd(AfterWrite(d0, 1, 1), <<1>>))
        d2 == AfterCommit(AfterAdd(AfterWrite(d1, 2, 1), <<2>>))
        d3 == AfterCheckout(d2, 1)
    IN  AfterCommit(AfterAdd(AfterWrite(d3, 2, 1), <<2>>))

InitFork ==
    /\ ofsdir = ForkedRepo.ofsdir
    /\ ws = ForkedRepo.ws
    /\ objects = ForkedRepo.objects
    /\ index = ForkedRepo.index
    /\ commits = ForkedRepo.commits
    /\ head = ForkedRepo.head
    /\ mainref = ForkedRepo.mainref
    /\ cache = <<>>
    /\ call = NoCall

(* The command line from there on, with forced checkouts, room for one     *)
(* more commit, and two contents per file.                                 *)
NextFork ==
    \/ \E paths \in Orderings(Paths) \ {<<>>} : CmdAdd(paths, TRUE)
    \/ CmdCommit(3, MaxForkCommits, TRUE)
    \/ \E commit_id \in 1..MaxForkCommits :
          \E remove_order \in Perms(FilesToRemove(Disk, commit_id)) :
              CmdCheckout(commit_id, TRUE, "n", remove_order, TRUE)
    \/ \E path \in Paths, content \in 1..MaxForkBytes : UserWrite(path, content)

SpecFork ==
    InitFork /\ [][NextFork]_vars

\* C37: after a successful commit the parent-chain tree of the new commit
\* maps exactly the paths of the index the commit ran on, each to its staged
\* hash.
C37_TreeIsIndex ==
    [][(/\ CommitPlan(Disk, cache, 3).rc = 0
        /\ CmdCommit(3, MaxForkCommits, TRUE))
       => HashMap(build_tree_state(generate_commit_id(commits), commits', <<>>).tree)
             = HashMap(index)]_vars

(* ---------------------- C38: HEAD stays detached ------------------------ *)

FirstFailedWrite(writes, unwritable) ==
    LET bad == {i \in DOMAIN writes :
                   writes[i].kind = "ws" /\ writes[i].path \in unwritable}
    IN  IF bad = {} THEN 0 ELSE CHOOSE i \in bad : \A j \in bad : i <= j

\* checkout where write_bytes raises for the unwritable paths: the except
\* branch of the restore loop returns 1 with the earlier files restored.
checkout_execute(d, c, commit_id, force, answer, remove_order, unwritable) ==
    LET r == CheckoutPlan(d, c, commit_id, force, answer, remove_order)
        k == FirstFailedWrite(r.writes, unwritable)
    IN  IF k = 0 THEN r
        ELSE [rc |-> 1, writes |-> SubSeq(r.writes, 1, k - 1), cache |-> r.cache]

\* Number of workspace files a run restored.
Restored(writes) ==
    Cardinality({i \in DOMAIN writes : writes[i].kind = "ws"})

CheckoutCall(commit_id, force, answer, remove_order, unwritable) ==
    LET r == checkout_execute(Disk, cache, commit_id, force, answer, remove_order,
                              unwritable)
    IN  /\ Install(ApplyWrites(Disk, r.writes))
        /\ cache' = <<>>
        /\ call' = [op |-> "checkout", rc |-> r.rc, restored |-> Restored(r.writes)]

\* A blob of the tree of commit_id is on disk with bytes that do not hash
\* to its name.
TreeBlobCorrupt(d, commit_id) ==
    \E i \in DOMAIN checkout_build_tree_state(commit_id, d.commits) :
        LET h == checkout_build_tree_state(commit_id, d.commits)[i].hash
        IN  exists(d.objects, h) /\ compute_hash(d.objects[h]) # h

NextRestore ==
    \/ \E paths \in Orderings(Paths) \ {<<>>} : CmdAdd(paths, TRUE)
    \/ \E msg_len \in {2, 3} : CmdCommit(msg_len, MaxRestoreCommits, TRUE)
    \/ \E commit_id \in 1..MaxRestoreCommits, mode \in CheckoutModes :
          \E remove_order \in Perms(FilesToRemove(Disk, commit_id)) :
             \E unwritable \in SUBSET Paths :
                CheckoutCall(commit_id, mode[1], mode[2], remove_order, unwritable)
    \/ Edits

SpecRestore ==
    InitBlobs /\ [][NextRestore]_vars

Layouts ==
    {[ofs_dir |-> FALSE, objects_dir |-> FALSE, head_file |-> FALSE,
      config_file |-> FALSE, index_file |-> "missing", commits_dir |-> "missing"]}
    \cup [ofs_dir : {TRUE}, objects_dir : BOOLEAN, head_file : BOOLEAN,
          config_file : BOOLEAN,
          index_file : {"missing", "badjson", "notlist", "list"},
          commits_dir : {"missing", "empty", "badjson", "commits"}]

\* ObjectStore.__init__: objects_dir.mkdir(parents=True, exist_ok=True).
ObjectStore_init(layout) ==
    [layout EXCEPT !.ofs_dir = TRUE, !.objects_dir = TRUE]

\* verify_objects: the store is constructed before objects/ is looked for.
verify_objects_fs(layout) ==
    LET made == ObjectStore_init(layout)
    IN  IF ~ made.objects_dir
        THEN [ok |-> FALSE, missing_reported |-> TRUE, layout |-> made]
        ELSE [ok |-> TRUE, missing_reported |-> FALSE, layout |-> made]

\* verify_index: the store is constructed once index.json has parsed to a
\* list.
verify_index_fs(layout) ==
    IF layout.index_file = "missing"
    THEN [ok |-> TRUE, missing_reported |-> FALSE, layout |-> layout]
    ELSE IF layout.index_file \in {"badjson", "notlist"}
    THEN [ok |-> FALSE, missing_reported |-> FALSE, layout |-> layout]
    ELSE [ok |-> TRUE, missing_reported |-> FALSE, layout |-> ObjectStore_init(layout)]

\* verify_commits: the store is constructed once every commit file has
\* parsed.
verify_commits_fs(layout) ==
    IF layout.commits_dir \in {"missing", "empty"}
    THEN [ok |-> TRUE, missing_reported |-> FALSE, layout |-> layout]
    ELSE IF layout.commits_dir = "badjson"
    THEN [ok |-> FALSE, missing_reported |-> FALSE, layout |-> layout]
    ELSE [ok |-> TRUE, missing_reported |-> FALSE, layout |-> ObjectStore_init(layout)]

\* verify_refs reads HEAD, the branch file and the commit; it makes no store.
verify_refs_fs(layout) ==
    [ok |-> layout.head_file, missing_reported |-> FALSE, layout |-> layout]

\* verify_repository: nothing when not initialized, else the four in turn.
verify_repository_fs(layout) ==
    IF ~ (layout.ofs_dir /\ layout.head_file /\ layout.config_file)
    THEN [ok |-> FALSE, missing_reported |-> FALSE, layout |-> layout]
    ELSE LET o == verify_objects_fs(layout)
             i == verify_index_fs(o.layout)
             c == verify_commits_fs(i.layout)
             r == verify_refs_fs(c.layout)
         IN  [ok |-> o.ok /\ i.ok /\ c.ok /\ r.ok,
              missing_reported |-> o.missing_reported, layout |-> r.layout]

VerifyFns ==
    {"objects", "index", "commits", "refs", "repository"}

InitVerifyFs ==
    /\ ofsdir = TRUE
    /\ ws = EmptyDir
    /\ objects = EmptyDir
    /\ index = <<>>
    /\ commits = EmptyDir
    /\ head = HeadSymbolic
    /\ mainref = 0
    /\ cache = <<>>
    /\ \E layout \in Layouts :
          call = [op |-> "none", fn |-> "none", layout |-> layout, after |-> layout,
                  missing_reported |-> FALSE]

VerifyFsCall(fn) ==
    LET r == CASE fn = "objects" -> verify_objects_fs(call.layout)
               [] fn = "index" -> verify_index_fs(call.layout)
               [] fn = "commits" -> verify_commits_fs(call.layout)
               [] fn = "refs" -> verify_refs_fs(call.layout)
               [] OTHER -> verify_repository_fs(call.layout)
    IN  /\ call.op = "none"
        /\ call' = [call EXCEPT !.op = "verified", !.fn = fn, !.after = r.layout,
                                !.missing_reported = r.missing_reported]
        /\ UNCHANGED <<ofsdir, ws, objects, index, commits, head, mainref, cache>>

NextVerifyFs ==
    \E fn \in VerifyFns : VerifyFsCall(fn)

SpecVerifyFs ==
    InitVerifyFs /\ [][NextVerifyFs]_vars

\* C40: verify_repository and each of the four checks leave every file and
\* directory as it was, and verify_objects on a repository whose objects
\* directory is missing reports the directory as missing.
C40_VerifyReadOnly ==
    call.op = "verified" =>
        /\ call.after = call.layout
        /\ (call.fn = "objects" /\ ~ call.layout.objects_dir)
               => call.missing_reported

====
